---- MODULE Spec2Model ----
(***************************************************************************)
(* FTE Agent: the analysis-and-action orchestration pipeline.              *)
(*                                                                         *)
(*   - the five heuristic analyzers (skills/*.py), computed over the       *)
(*     features of a message that their code reads;                        *)
(*   - the Result Assembler and action derivation (agent/brain.py          *)
(*     _structure_output / _determine_actions, main.py                     *)
(*     analyze_with_skills);                                               *)
(*   - the Agent Loop (agent/brain.py analyze_message) with the Tool       *)
(*     Registry (agent/tools.py execute_tool);                             *)
(*   - the Approval Gate, Action Executor and audit log (main.py);         *)
(*   - the quick mode of the agent (agent/brain.py quick_analyze);         *)
(*   - the Ingestion Loop over vault/inbox (main.py watch_folder) with     *)
(*     the WhatsApp watcher (watchers/whatsapp_watcher.py).                *)
(*                                                                         *)
(* Python values are modelled as follows.  A str that the code slices or   *)
(* searches is a record [chars |-> <<"a", "b", ...>>]; a str that is only  *)
(* passed around is a TLA+ string; a dict is a record (or a function whose *)
(* DOMAIN is its key set); a list is a sequence; None is the value None.   *)
(***************************************************************************)
EXTENDS Integers, Sequences, FiniteSets, TLC

VARIABLES
    \* ---- main.py: FTEOrchestrator pipeline ----
    pc,               \* position of the orchestrator
    mode,             \* "interactive" (run_interactive) or "watch" (watch_folder)
    message,          \* the message being processed (NoMessage when idle)
    sender,           \* its sender
    result,           \* the AnalysisRecord of the current message (NoResult when idle)
    idx,              \* approval_flow: 1-based index of the action awaiting a response
    approved,         \* approval_flow: local list `approved`
    presented,        \* what approval_flow printed: indexes of the actions shown
    responses,        \* what approval_flow read: the raw input() strings, in order
    approved_actions, \* the list approval_flow returned to its caller
    exec_idx,         \* execute_actions: 1-based index of the next action to run
    executed,         \* execute_actions: per attempted action, the action and its outcome
    artifacts,        \* files written to vault/actions by the current batch
    audit,            \* the audit entry written for the current batch (NoAudit if none)
    errors,           \* error lines printed for the current message
    moved,            \* process_message_file: the file was renamed into vault/processed
    \* ---- agent/brain.py: FTEAgent ----
    apc,              \* position of the agent / assembler
    amessage,         \* analyze_message: argument `message`
    asender,          \* analyze_message: argument `sender` (None when not supplied)
    llm,              \* the behaviour of the LLM for this call (planning + synthesis)
    call_idx,         \* analyze_message: 1-based index of the next tool call
    tool_results,     \* analyze_message: dict tool_results
    transcript,       \* analyze_message: list `messages` after the two prompts
    llm_calls,        \* number of chat.completions.create calls made
    synthesis,        \* analyze_message: `synthesis`
    output,           \* what analyze_message / _structure_output returned
    skills_output,    \* what analyze_with_skills returned for the same input
    invoked,          \* execute_tool: the tool functions called so far, in order
    requests,         \* the chat.completions.create requests made so far, in order
    \* ---- main.py: log_execution and vault/logs ----
    clock,            \* the second that datetime.now() falls in
    logs,             \* vault/logs: the content of execution_<second>.json, per second
    logged,           \* number of log_execution calls that wrote their entry
    vault_actions,    \* vault/actions: the content of each artifact file, per file name
    \* ---- main.py: watch_folder; watchers/whatsapp_watcher.py ----
    wpc,              \* position of watch_folder
    inbox,            \* vault/inbox: per file present, "open" (being written), "closed",
                      \* or "new" (another message, put under a path used before)
    processed_dir,    \* vault/processed: the files present
    inbox_files,      \* watch_folder: what is left of the list `inbox_files`, current file first
    file_path,        \* watch_folder: the file process_message_file is working on
    processed_files,  \* watch_folder: the set `processed_files`
    file_calls,       \* the process_message_file calls made so far, in order
    failures,         \* the files an "ERROR: Failed to process message" line was printed for
    writing,          \* whatsapp_watcher: the file it has open for writing
    created           \* whatsapp_watcher: number of files it has created

pipeline_vars == <<pc, mode, message, sender, result, idx, approved, presented,
                   responses, approved_actions, exec_idx, executed, artifacts,
                   audit, errors, moved>>

agent_vars == <<apc, amessage, asender, llm, call_idx, tool_results, transcript,
                llm_calls, synthesis, output, skills_output, invoked, requests>>

audit_vars == <<clock, logs, logged, vault_actions>>

watch_vars == <<wpc, inbox, processed_dir, inbox_files, file_path,
                processed_files, file_calls, failures, writing, created>>

vars == <<pc, mode, message, sender, result, idx, approved, presented,
          responses, approved_actions, exec_idx, executed, artifacts,
          audit, errors, moved,
          apc, amessage, asender, llm, call_idx, tool_results, transcript,
          llm_calls, synthesis, output, skills_output, invoked, requests,
          clock, logs, logged, vault_actions,
          wpc, inbox, processed_dir, inbox_files, file_path,
          processed_files, file_calls, failures, writing, created>>

(***************************************************************************)
(* Bounds of the model.                                                    *)
(***************************************************************************)
\* Longest list of potential tasks a message yields.
MaxTasks == 2

\* Most tool calls in one planning response of the LLM.
MaxCalls == 2

\* The last second of the clock; it starts at second 0.
MaxClock == 2

\* Most batches logged in one run of the audit log.
MaxBatches == 2

\* Most files the WhatsApp watcher creates in one run.
MaxFiles == 2

\* Most lines before the "From:" line of a file; extract_sender looks at the
\* first five lines.
MaxLines == 6

(***************************************************************************)
(* Python built-ins.                                                       *)
(***************************************************************************)
\* Python's None.
None == "<None>"

\* bool(x) for a str-or-None value: None and '' are falsy.
Truthy(x) == x \notin {None, ""}

\* d.get(key, default)
Get(d, key, default) == IF key \in DOMAIN d THEN d[key] ELSE default

Min(a, b) == IF a <= b THEN a ELSE b

\* s[:n] for a sequence s.
Take(s, n) == SubSeq(s, 1, Min(n, Len(s)))

\* A str whose characters the code looks at.
Text(cs) == [chars |-> cs]

UpperCase == <<"A", "B", "C", "D", "E", "F", "G", "H", "I", "J", "K", "L", "M",
               "N", "O", "P", "Q", "R", "S", "T", "U", "V", "W", "X", "Y", "Z">>

LowerCase == <<"a", "b", "c", "d", "e", "f", "g", "h", "i", "j", "k", "l", "m",
               "n", "o", "p", "q", "r", "s", "t", "u", "v", "w", "x", "y", "z">>

\* str.lower() of one character.
LowerChar(c) ==
    IF \E i \in DOMAIN UpperCase : UpperCase[i] = c
    THEN LowerCase[CHOOSE i \in DOMAIN UpperCase : UpperCase[i] = c]
    ELSE c

\* str.lower()
Lower(cs) == [i \in DOMAIN cs |-> LowerChar(cs[i])]

Whitespace == {" ", "\t", "\n", "\r"}

RECURSIVE LStrip(_)
LStrip(cs) ==
    IF cs # <<>> /\ Head(cs) \in Whitespace THEN LStrip(Tail(cs)) ELSE cs

RECURSIVE RStrip(_)
RStrip(cs) ==
    IF cs # <<>> /\ cs[Len(cs)] \in Whitespace
    THEN RStrip(SubSeq(cs, 1, Len(cs) - 1))
    ELSE cs

\* str.strip()
Strip(cs) == RStrip(LStrip(cs))

\* `w in s` for strings: w occurs in s as a substring.
Contains(cs, w) ==
    \E i \in 0..(Len(cs) - Len(w)) : SubSeq(cs, i + 1, i + Len(w)) = w

(***************************************************************************)
(* Messages.  The analyzers score the raw text with keyword counts and     *)
(* regular expressions; a message is represented by the quantities their   *)
(* code computes from the text before it branches on them:                 *)
(*   urgent_count, low_count, time_sensitive_count  (priority_detector)    *)
(*   scores, total_words                            (categorizer)          *)
(*   keywords: the keyword groups of reply_suggester found in the text     *)
(*   summary_text                                   (summarizer)           *)
(*   potential_tasks: the task lines found          (task_extractor)       *)
(***************************************************************************)
\* task_extractor.py: 'title': task[:100]
TitleLen == 100

Categories == <<"work", "personal", "study", "finance">>

ShortTask == Text(<<"c", "a", "l", "l", " ", "B", "o", "b">>)

\* A task line of TitleLen + 1 characters, so that its title is cut.
LongTask == Text(<<"M", "u", "s", "t", " ">> \o [i \in 1..(TitleLen - 4) |-> "x"])

TaskTexts == {ShortTask, LongTask}

TaskLists == UNION {[1..n -> TaskTexts] : n \in 0..MaxTasks}

\* The text-level features of five kinds of message; the task lines vary freely.
Profiles == {
    \* an empty file
    [text |-> "", summary_text |-> "",
     urgent_count |-> 0, low_count |-> 0, time_sensitive_count |-> 0,
     scores |-> [work |-> 0, personal |-> 0, study |-> 0, finance |-> 0],
     total_words |-> 0, keywords |-> {}],
    \* "URGENT: please review the report and send your approval asap."
    [text |-> "urgent-review", summary_text |-> "URGENT: please review ...",
     urgent_count |-> 2, low_count |-> 0, time_sensitive_count |-> 1,
     scores |-> [work |-> 2, personal |-> 0, study |-> 0, finance |-> 0],
     total_words |-> 10, keywords |-> {"request", "urgent"}],
    \* "Hi, dinner with the team whenever convenient"
    [text |-> "casual-dinner", summary_text |-> "Hi, dinner with the team ...",
     urgent_count |-> 0, low_count |-> 2, time_sensitive_count |-> 0,
     scores |-> [work |-> 1, personal |-> 1, study |-> 0, finance |-> 0],
     total_words |-> 8, keywords |-> {"greeting", "meeting"}],
    \* a long note that mentions a report, a paper and a fee once each
    [text |-> "long-mixed", summary_text |-> "Notes from the week ...",
     urgent_count |-> 0, low_count |-> 0, time_sensitive_count |-> 3,
     scores |-> [work |-> 1, personal |-> 0, study |-> 1, finance |-> 1],
     total_words |-> 60, keywords |-> {"meeting"}],
    \* a long message about one invoice, "not urgent" but with a "deadline"
    [text |-> "long-invoice", summary_text |-> "About the invoice ...",
     urgent_count |-> 2, low_count |-> 2, time_sensitive_count |-> 0,
     scores |-> [work |-> 0, personal |-> 0, study |-> 0, finance |-> 1],
     total_words |-> 60, keywords |-> {"question", "appreciation"}]
}

WithTasks(p, ts) ==
    [text |-> p.text, summary_text |-> p.summary_text,
     urgent_count |-> p.urgent_count, low_count |-> p.low_count,
     time_sensitive_count |-> p.time_sensitive_count,
     scores |-> p.scores, total_words |-> p.total_words,
     keywords |-> p.keywords, potential_tasks |-> ts]

\* An empty text has no task lines.
Messages ==
    {WithTasks(p, ts) : p \in {q \in Profiles : q.text # ""}, ts \in TaskLists}
        \cup {WithTasks(p, <<>>) : p \in {q \in Profiles : q.text = ""}}

(***************************************************************************)
(* skills/summarizer.py                                                    *)
(***************************************************************************)
summarize_content(m) == [summary |-> m.summary_text]

(***************************************************************************)
(* skills/priority_detector.py                                             *)
(***************************************************************************)
priority_map(p) ==
    CASE p = "urgent" -> "HIGH"
      [] p = "normal_urgent" -> "MEDIUM"
      [] p = "normal" -> "MEDIUM"
      [] p = "low" -> "LOW"
      [] OTHER -> "MEDIUM"

detect_priority(m) ==
    LET byCount == IF m.urgent_count > m.low_count THEN "urgent"
                   ELSE IF m.low_count > m.urgent_count THEN "low"
                   ELSE "normal"
        priority == IF m.time_sensitive_count > 2 /\ byCount = "normal"
                    THEN "normal_urgent"
                    ELSE byCount
    IN  [priority |-> priority_map(priority)]

(***************************************************************************)
(* skills/categorizer.py                                                   *)
(***************************************************************************)
\* max(scores, key=scores.get): the first category, in dict order, of top score.
MaxCategory(scores) ==
    LET top(i) == \A j \in DOMAIN Categories :
                      scores[Categories[j]] <= scores[Categories[i]]
        first == CHOOSE i \in DOMAIN Categories :
                      top(i) /\ \A j \in 1..(i - 1) : ~top(j)
    IN  Categories[first]

\* confidence < 0.2, where
\* confidence = min(max_score / max(total_words * 0.1, 1), 1.0) if total_words > 0 else 0.5
LowConfidence(max_score, total_words) ==
    /\ total_words > 10
    /\ 50 * max_score < total_words

categorize_content(m) ==
    LET max_category == MaxCategory(m.scores)
        max_score == m.scores[max_category]
        sum == m.scores.work + m.scores.personal + m.scores.study + m.scores.finance
        \* max_score < (sum / 4) * 1.5
        mixed == 8 * max_score < 3 * sum
    IN  [category |->
            IF max_score = 0 THEN "other"
            ELSE IF LowConfidence(max_score, m.total_words) /\ mixed THEN "other"
            ELSE max_category]

(***************************************************************************)
(* skills/reply_suggester.py                                               *)
(***************************************************************************)
MessageType(keywords) ==
    IF "greeting" \in keywords THEN "greeting"
    ELSE IF "request" \in keywords THEN "request"
    ELSE IF "problem" \in keywords THEN "problem"
    ELSE IF "urgent" \in keywords THEN "urgent"
    ELSE IF "question" \in keywords THEN "question"
    ELSE IF "meeting" \in keywords THEN "meeting"
    ELSE IF "appreciation" \in keywords THEN "appreciation"
    ELSE IF "compliment" \in keywords THEN "compliment"
    ELSE "general"

Suggestions(message_type) ==
    CASE message_type = "greeting" ->
            <<"Hello! How can I help you today?",
              "Hi! Thanks for reaching out. What can I assist you with?",
              "Hey! Good to hear from you. What do you need?">>
      [] message_type = "problem" ->
            <<"I understand you're experiencing an issue. Let me look into this and help you resolve it.",
              "Thanks for reporting this problem. I'll investigate and get back to you with a solution.",
              "I see there's an issue. Can you provide more details so I can help fix it?">>
      [] message_type = "request" ->
            <<"I'd be happy to help with that. Let me take care of it for you.",
              "Sure, I can assist with this request. I'll get started right away.",
              "Absolutely, I'll handle this for you. Give me a moment to process it.">>
      [] message_type = "urgent" ->
            <<"I acknowledge receipt of your urgent message. I will prioritize addressing this and get back to you shortly.",
              "Understood. I'm looking into this matter right away and will provide an update within the next hour.",
              "I've received your urgent request and am treating it with the highest priority.">>
      [] message_type = "question" ->
            <<"Thank you for your question. Let me look into this and get back to you with a detailed response.",
              "I understand you have a question. I'll review the details and provide an answer soon.",
              "Thanks for reaching out with this question. I need to gather some information before responding.">>
      [] message_type = "meeting" ->
            <<"I've noted the meeting request. I'll check my calendar and confirm my availability.",
              "Thank you for the meeting invitation. I'll review my schedule and respond shortly.",
              "I acknowledge the meeting request. I'll confirm my attendance once I've checked my availability.">>
      [] message_type = "appreciation" ->
            <<"Thank you for your kind words. I appreciate the recognition.",
              "I'm grateful for your appreciation. Thank you for taking the time to share this feedback.",
              "Your appreciation means a lot. Thank you for the positive feedback.">>
      [] message_type = "compliment" ->
            <<"Thank you for the compliment. I appreciate the recognition.",
              "I'm honored by your kind words. Thank you for taking the time to acknowledge this.",
              "Your feedback is much appreciated. Thank you for the encouraging words.">>
      [] OTHER ->
            <<"Thank you for your message. I have received it and will respond shortly.",
              "I acknowledge receipt of your message. I'm reviewing the details and will get back to you soon.",
              "Thank you for sharing this information. I'll process it and provide a response.",
              "I've received your message and understand the request. I'll address this as soon as possible.",
              "Thanks for the update. I'm reviewing the information and will follow up shortly.">>

suggest_reply(m, from) ==
    LET message_type == MessageType(m.keywords)
    IN  [message_type |-> message_type,
         suggestions |-> Take(Suggestions(message_type), 3),
         sender |-> from]

(***************************************************************************)
(* skills/task_extractor.py                                                *)
(***************************************************************************)
UrgentWords == {<<"u", "r", "g", "e", "n", "t">>, <<"a", "s", "a", "p">>,
                <<"i", "m", "m", "e", "d", "i", "a", "t", "e", "l", "y">>,
                <<"c", "r", "i", "t", "i", "c", "a", "l">>}

HighWords == {<<"i", "m", "p", "o", "r", "t", "a", "n", "t">>,
              <<"p", "r", "i", "o", "r", "i", "t", "y">>,
              <<"m", "u", "s", "t">>}

TaskPriority(task) ==
    LET task_lower == Lower(task.chars)
    IN  IF \E w \in UrgentWords : Contains(task_lower, w) THEN "urgent"
        ELSE IF \E w \in HighWords : Contains(task_lower, w) THEN "high"
        ELSE "normal"

\* One entry of structured_tasks; i is the 0-based enumerate() index.
StructuredTask(task, i) ==
    [title |-> Text(Take(task.chars, TitleLen)),
     description |-> task,
     priority |-> TaskPriority(task),
     index |-> i]

extract_tasks(m) ==
    [tasks |-> [i \in DOMAIN m.potential_tasks |->
                    StructuredTask(m.potential_tasks[i], i - 1)],
     count |-> Len(m.potential_tasks),
     raw_tasks |-> m.potential_tasks]


(***************************************************************************)
(* Actions (the dicts built by _determine_actions and analyze_with_skills) *)
(***************************************************************************)
\* The argument of a description that formats nothing.
NoArg == [none |-> TRUE]

\* An f-string: the literal part and the value formatted into it.
Description(literal, arg) == [literal |-> literal, arg |-> arg]

SendReply(reply, recipient) ==
    [type |-> "send_reply",
     description |-> Description("Send suggested reply", NoArg),
     data |-> [reply |-> reply, recipient |-> recipient]]

CreateTask(task, priority) ==
    [type |-> "create_task",
     description |-> Description("Create task: ", task),
     data |-> [task |-> task, priority |-> priority]]

(***************************************************************************)
(* agent/brain.py: the Result Assembler                                    *)
(***************************************************************************)
\* A value for "nothing returned yet".
NoOutput == [none |-> TRUE]

\* Variant: the reply action is emitted whether or not a reply was suggested.
_determine_actions_unguarded(analysis) ==
    LET tasks == Get(analysis, "tasks", <<>>)
    IN  <<SendReply(analysis.suggested_reply, analysis.sender)>>
            \o [i \in DOMAIN tasks |-> CreateTask(tasks[i], analysis.priority)]

\* Variant: the task actions are emitted before the reply action.
_determine_actions_tasks_first(analysis) ==
    LET tasks == Get(analysis, "tasks", <<>>)
    IN  [i \in DOMAIN tasks |-> CreateTask(tasks[i], analysis.priority)]
            \o (IF Truthy(Get(analysis, "suggested_reply", None))
                THEN <<SendReply(analysis.suggested_reply, analysis.sender)>>
                ELSE <<>>)

\* Variant: the actions are appended to the list the record already holds.
_determine_actions_extending(analysis) ==
    LET tasks == Get(analysis, "tasks", <<>>)
    IN  analysis.actions
            \o (IF Truthy(Get(analysis, "suggested_reply", None))
                THEN <<SendReply(analysis.suggested_reply, analysis.sender)>>
                ELSE <<>>)
            \o [i \in DOMAIN tasks |-> CreateTask(tasks[i], analysis.priority)]

_determine_actions(analysis) ==
    LET actions == <<>>
        reply == IF Truthy(Get(analysis, "suggested_reply", None))
                 THEN <<SendReply(analysis.suggested_reply, analysis.sender)>>
                 ELSE <<>>
        tasks == Get(analysis, "tasks", <<>>)
        creates == [i \in DOMAIN tasks |-> CreateTask(tasks[i], analysis.priority)]
    IN  actions \o reply \o creates

\* Variant: the priority is read only when a summarizer result is present too.
_structure_output_coupled(m, from, results, narrative) ==
    LET suggestions == Get(results["reply_suggester"], "suggestions", <<>>)
        out == [message |-> m.text,
                sender |-> IF Truthy(from) THEN from ELSE "Unknown",
                analysis |-> narrative,
                summary |-> IF "summarizer" \in DOMAIN results
                            THEN Get(results["summarizer"], "summary", "")
                            ELSE None,
                priority |-> IF {"priority_detector", "summarizer"} \subseteq DOMAIN results
                             THEN Get(results["priority_detector"], "priority", "MEDIUM")
                             ELSE "MEDIUM",
                category |-> IF "categorizer" \in DOMAIN results
                             THEN Get(results["categorizer"], "category", "other")
                             ELSE "other",
                suggested_reply |-> IF "reply_suggester" \in DOMAIN results
                                       /\ suggestions # <<>>
                                    THEN suggestions[1]
                                    ELSE None,
                tasks |-> IF "task_extractor" \in DOMAIN results
                          THEN Get(results["task_extractor"], "tasks", <<>>)
                          ELSE <<>>,
                actions |-> <<>>]
    IN  [out EXCEPT !.actions = _determine_actions(out)]

_structure_output(m, from, results, narrative) ==
    LET reply_data == results["reply_suggester"]
        suggestions == Get(reply_data, "suggestions", <<>>)
        out == [message |-> m.text,
                sender |-> IF Truthy(from) THEN from ELSE "Unknown",
                analysis |-> narrative,
                summary |-> IF "summarizer" \in DOMAIN results
                            THEN Get(results["summarizer"], "summary", "")
                            ELSE None,
                priority |-> IF "priority_detector" \in DOMAIN results
                             THEN Get(results["priority_detector"], "priority", "MEDIUM")
                             ELSE "MEDIUM",
                category |-> IF "categorizer" \in DOMAIN results
                             THEN Get(results["categorizer"], "category", "other")
                             ELSE "other",
                suggested_reply |-> IF "reply_suggester" \in DOMAIN results
                                       /\ suggestions # <<>>
                                    THEN suggestions[1]
                                    ELSE None,
                tasks |-> IF "task_extractor" \in DOMAIN results
                          THEN Get(results["task_extractor"], "tasks", <<>>)
                          ELSE <<>>,
                actions |-> <<>>]
    IN  [out EXCEPT !.actions = _determine_actions(out)]

(***************************************************************************)
(* main.py: analyze_with_skills, the direct heuristic path                 *)
(***************************************************************************)
analyze_with_skills(m, from) ==
    LET summary_result == summarize_content(m)
        priority_result == detect_priority(m)
        category_result == categorize_content(m)
        reply_result == suggest_reply(m, from)
        tasks_result == extract_tasks(m)
        res == [sender |-> from,
                message |-> m.text,
                summary |-> Get(summary_result, "summary", ""),
                priority |-> Get(priority_result, "priority", "MEDIUM"),
                category |-> Get(category_result, "category", "other"),
                suggested_reply |->
                    IF Get(reply_result, "suggestions", <<>>) # <<>>
                    THEN Get(reply_result, "suggestions", <<None>>)[1]
                    ELSE None,
                tasks |-> Get(tasks_result, "tasks", <<>>),
                actions |-> <<>>]
        reply == IF Truthy(res.suggested_reply)
                 THEN <<SendReply(res.suggested_reply, from)>>
                 ELSE <<>>
        \* task_title = task.get('title', str(task)): every task is a dict with a title
        creates == [i \in DOMAIN res.tasks |->
                        CreateTask(res.tasks[i].title, res.priority)]
    IN  [res EXCEPT !.actions = reply \o creates]


(***************************************************************************)
(* agent/tools.py: the Tool Registry                                       *)
(***************************************************************************)
\* The keys of TOOLS, in dict order.
TOOLS == <<"summarizer", "reply_suggester", "task_extractor",
           "priority_detector", "categorizer">>

ToolNames == {TOOLS[i] : i \in DOMAIN TOOLS}

\* TOOLS[name]["function"](content=<the message>); reply_suggester_tool's
\* optional sender is not passed.
ToolFunction(tool_name, m) ==
    CASE tool_name = "summarizer" -> summarize_content(m)
      [] tool_name = "reply_suggester" -> suggest_reply(m, None)
      [] tool_name = "task_extractor" -> extract_tasks(m)
      [] tool_name = "priority_detector" -> detect_priority(m)
      [] tool_name = "categorizer" -> categorize_content(m)

\* An exception object; its message is a formatted string like a description.
Exception(type, literal, arg) ==
    [type |-> type, message |-> Description(literal, arg)]

\* str(e)
Str(e) == e.message

\* f"Unknown tool: {tool_name}"
UnknownTool(tool_name) == [error |-> Description("Unknown tool: ", tool_name)]

\* tool_func(**arguments) with arguments that do not fit the function
ArgsTypeError ==
    Exception("TypeError", "got an unexpected keyword argument", NoArg)

\* What a call does: it returns a value or raises an exception.  `called` is
\* the list of tool functions the call has called.
Returns(value, called) == [returns |-> value, called |-> called]

Raises(e, called) == [raises |-> e, called |-> called]

\* {"error": str(e)}: the tool function raised (arguments that do not fit it).
ToolRaised == [error |-> Str(ArgsTypeError)]

\* The arguments of a tool call as the LLM may write them:
\*   "content"   a JSON object {"content": <the message>}
\*   "badargs"   a JSON object the tool function cannot be called with
\*   "malformed" not JSON: json.loads raises before execute_tool is called
ArgKinds == {"content", "badargs", "malformed"}

\* result = tool_func(**arguments)
CallToolFunction(tool_name, arguments, m) ==
    IF arguments = "badargs"
    THEN Raises(ArgsTypeError, <<tool_name>>)
    ELSE Returns(ToolFunction(tool_name, m), <<tool_name>>)

\* Variant: the name is looked up without being checked first.
execute_tool_unvalidated(tool_name, arguments, m) ==
    IF tool_name \notin ToolNames
    THEN Raises(Exception("KeyError", "", tool_name), <<>>)
    ELSE LET call == CallToolFunction(tool_name, arguments, m)
         IN  IF "raises" \in DOMAIN call
             THEN Returns([error |-> Str(call.raises)], call.called)
             ELSE call

\* Variant: the tool function is called outside the try.
execute_tool_uncaught(tool_name, arguments, m) ==
    IF tool_name \notin ToolNames
    THEN Returns(UnknownTool(tool_name), <<>>)
    ELSE CallToolFunction(tool_name, arguments, m)

execute_tool(tool_name, arguments, m) ==
    IF tool_name \notin ToolNames
    THEN Returns(UnknownTool(tool_name), <<>>)
    ELSE LET call == CallToolFunction(tool_name, arguments, m)
         IN  IF "raises" \in DOMAIN call
             THEN Returns([error |-> Str(call.raises)], call.called)
             ELSE call

(***************************************************************************)
(* Inputs of the Result Assembler: every dict tool_results that            *)
(* analyze_message can collect for a message.  Each tool is absent, holds  *)
(* its analyzer's result, or holds an error result.                        *)
(***************************************************************************)
Senders == {None, "John"}

ToolResultSets(m) ==
    UNION {
        {[n \in S |-> execute_tool(n, kinds[n], m).returns] :
            kinds \in [S -> {"content", "badargs"}]}
        : S \in SUBSET ToolNames }


(***************************************************************************)
(* Idle values of the variables a specification does not use.              *)
(***************************************************************************)
NoMessage == [none |-> TRUE]

NoResult == [none |-> TRUE]

NoAudit == [none |-> TRUE]

NoLLM == [none |-> TRUE]

PipelineOff ==
    /\ pc = "off"
    /\ mode = "off"
    /\ message = NoMessage
    /\ sender = None
    /\ result = NoResult
    /\ idx = 0
    /\ approved = <<>>
    /\ presented = <<>>
    /\ responses = <<>>
    /\ approved_actions = <<>>
    /\ exec_idx = 0
    /\ executed = <<>>
    /\ artifacts = <<>>
    /\ audit = NoAudit
    /\ errors = <<>>
    /\ moved = FALSE

(***************************************************************************)
(* main.py: FTEOrchestrator.  One message at a time goes through           *)
(* analysis, the Approval Gate, the Action Executor and the audit log.     *)
(*                                                                         *)
(* pc: "prompt"   run_interactive blocked on input("Enter message")        *)
(*     "poll"     watch_folder between two files                           *)
(*     "approval" approval_flow blocked on input() for action idx          *)
(*     "returned" approval_flow has returned to its caller                 *)
(*     "execute"  execute_actions about to run action exec_idx             *)
(*     "log"      execute_actions about to call log_execution              *)
(*     "move"     process_message_file about to rename the file            *)
(*     "done"     the message is dealt with; the loop is about to go round *)
(*     "exit"     the process ended; "crashed": by an uncaught exception   *)
(***************************************************************************)
\* What the human may type at "Approve this action? [Y/n]: ".
Responses == {<<>>, <<"Y">>, <<" ", "Y", "e", "s">>, <<"n", "o">>}

\* A file of the inbox: the sender its name gives after "_from_" (None when
\* the name has no such part) and its content.
InboxFiles == [name_sender : {None, "John"}, content : Messages]

\* extract_sender, for a content without a "From:" line
extract_sender(file) ==
    IF file.name_sender # None THEN file.name_sender ELSE "Unknown"

AgentOff ==
    /\ apc = "off"
    /\ amessage = NoMessage
    /\ asender = None
    /\ llm = NoLLM
    /\ call_idx = 0
    /\ tool_results = <<>>
    /\ transcript = <<>>
    /\ llm_calls = 0
    /\ synthesis = None
    /\ output = NoOutput
    /\ skills_output = NoOutput
    /\ invoked = <<>>
    /\ requests = <<>>

\* vault/logs is empty and nothing was logged.
AuditOff ==
    /\ clock = 0
    /\ logs = <<>>
    /\ logged = 0
    /\ vault_actions = <<>>

\* No file is open or being processed.
NoFile == <<>>

\* watch_folder is not running and the vault is empty.
WatchOff ==
    /\ wpc = "off"
    /\ inbox = <<>>
    /\ processed_dir = {}
    /\ inbox_files = <<>>
    /\ file_path = NoFile
    /\ processed_files = {}
    /\ file_calls = <<>>
    /\ failures = <<>>
    /\ writing = NoFile
    /\ created = 0

Init ==
    /\ AgentOff
    /\ AuditOff
    /\ WatchOff
    /\ mode \in {"interactive", "watch"}
    /\ pc = IF mode = "interactive" THEN "prompt" ELSE "poll"
    /\ message = NoMessage
    /\ sender = None
    /\ result = NoResult
    /\ idx = 0
    /\ approved = <<>>
    /\ presented = <<>>
    /\ responses = <<>>
    /\ approved_actions = <<>>
    /\ exec_idx = 0
    /\ executed = <<>>
    /\ artifacts = <<>>
    /\ audit = NoAudit
    /\ errors = <<>>
    /\ moved = FALSE

\* response = input(...).strip().lower()
NormalizeResponse(raw) == Lower(Strip(raw))

\* Variant: only a spelled-out "yes" or an empty line approves.
IsApproval_yes_only(response) == response \in {<<"y", "e", "s">>, <<>>}

\* if response in ['y', 'yes', '']
IsApproval(response) == response \in {<<"y">>, <<"y", "e", "s">>, <<>>}

\* Variant: the approved action is put in front of the list.
AppendApproved_in_front(list, action) == <<action>> \o list

\* Variant: the approved action is stamped with the decision.
AppendApproved_stamped(list, action) ==
    Append(list, [type |-> action.type, description |-> action.description,
                  data |-> action.data, approved |-> TRUE])

\* approved.append(action)
AppendApproved(list, action) == Append(list, action)

\* Variant: the loop steps over an action.
NextIndex_skipping(i) == i + 2

\* for i, action in enumerate(actions, 1): the index after i
NextIndex(i) == i + 1

\* Variant: every derived action is handed to the executor.
ActionsToExecute_all(approved_list, res) == res.actions

\* self.execute_actions(approved_actions, result): the list that is executed
ActionsToExecute(approved_list, res) == approved_list

\* Variant: the file is not relocated.
AfterBatch_no_rename(m) == "done"

\* Where the caller of approval_flow / execute_actions goes on when the batch
\* is over (nothing derived, nothing approved, or executed and logged):
\* process_message_file renames the file, run_interactive goes round.
AfterBatch(m) == IF m = "watch" THEN "move" ELSE "done"

\* The analysis is done and displayed; process_message_file / run_interactive
\* go on with `if result.get("actions"): approved_actions = self.approval_flow(result)`.
\* approval_flow prints the first action and blocks on input().
Analyzed(m, from, res) ==
    /\ message' = m
    /\ sender' = from
    /\ result' = res
    /\ approved' = <<>>
    /\ responses' = <<>>
    /\ approved_actions' = <<>>
    /\ exec_idx' = 0
    /\ executed' = <<>>
    /\ artifacts' = <<>>
    /\ audit' = NoAudit
    /\ errors' = <<>>
    /\ moved' = FALSE
    /\ IF Get(res, "actions", <<>>) # <<>>
       THEN /\ pc' = "approval"
            /\ idx' = 1
            /\ presented' = <<1>>
       ELSE /\ pc' = AfterBatch(mode)
            /\ idx' = 0
            /\ presented' = <<>>

\* run_interactive: a message is typed (not empty, not a command)
InteractiveMessage ==
    /\ pc = "prompt"
    /\ \E m \in Messages :
           /\ m.text # ""
           /\ Analyzed(m, "Unknown", analyze_with_skills(m, "Unknown"))
    /\ UNCHANGED mode
    /\ UNCHANGED agent_vars
    /\ UNCHANGED audit_vars
    /\ UNCHANGED watch_vars

\* run_interactive: 'quit'
InteractiveQuit ==
    /\ pc = "prompt"
    /\ pc' = "exit"
    /\ UNCHANGED <<mode, message, sender, result, idx, approved, presented,
                   responses, approved_actions, exec_idx, executed, artifacts,
                   audit, errors, moved>>
    /\ UNCHANGED agent_vars
    /\ UNCHANGED audit_vars
    /\ UNCHANGED watch_vars

\* run_interactive: 'watch' calls watch_folder
InteractiveWatch ==
    /\ pc = "prompt"
    /\ pc' = "poll"
    /\ mode' = "watch"
    /\ UNCHANGED <<message, sender, result, idx, approved, presented,
                   responses, approved_actions, exec_idx, executed, artifacts,
                   audit, errors, moved>>
    /\ UNCHANGED agent_vars
    /\ UNCHANGED audit_vars
    /\ UNCHANGED watch_vars

\* watch_folder: a new file is found; process_message_file reads and analyzes it
WatchProcessFile ==
    /\ pc = "poll"
    /\ \E file \in InboxFiles :
           Analyzed(file.content, extract_sender(file),
                    analyze_with_skills(file.content, extract_sender(file)))
    /\ UNCHANGED mode
    /\ UNCHANGED agent_vars
    /\ UNCHANGED audit_vars
    /\ UNCHANGED watch_vars

\* watch_folder: a new file is found and cannot be read; process_message_file
\* catches the exception and prints it
WatchReadFails ==
    /\ pc = "poll"
    /\ message' = NoMessage
    /\ sender' = None
    /\ result' = NoResult
    /\ idx' = 0
    /\ approved' = <<>>
    /\ presented' = <<>>
    /\ responses' = <<>>
    /\ approved_actions' = <<>>
    /\ exec_idx' = 0
    /\ executed' = <<>>
    /\ artifacts' = <<>>
    /\ audit' = NoAudit
    /\ errors' = <<"ERROR: Failed to process message">>
    /\ moved' = FALSE
    /\ pc' = "done"
    /\ UNCHANGED mode
    /\ UNCHANGED agent_vars
    /\ UNCHANGED audit_vars
    /\ UNCHANGED watch_vars

\* watch_folder: KeyboardInterrupt while polling
WatchStop ==
    /\ pc = "poll"
    /\ pc' = "exit"
    /\ UNCHANGED <<mode, message, sender, result, idx, approved, presented,
                   responses, approved_actions, exec_idx, executed, artifacts,
                   audit, errors, moved>>
    /\ UNCHANGED agent_vars
    /\ UNCHANGED audit_vars
    /\ UNCHANGED watch_vars

\* Variant: the actions approved before the interrupt are still executed.
GateInterrupted_keeps_approved(approved_list) ==
    IF approved_list # <<>>
    THEN [pc |-> "execute", approved_actions |-> approved_list, exec_idx |-> 1]
    ELSE [pc |-> "exit", approved_actions |-> <<>>, exec_idx |-> 0]

\* KeyboardInterrupt out of input() in approval_flow.  It is not an Exception:
\* it passes `except Exception` of process_message_file and is caught by
\* `except KeyboardInterrupt` of watch_folder / run_interactive, which end the
\* loop.  The local list `approved` is never returned.
GateInterrupted(approved_list) ==
    [pc |-> "exit", approved_actions |-> <<>>, exec_idx |-> 0]

\* approval_flow: Ctrl+C while input() waits for the response to action idx
ApprovalInterrupt ==
    /\ pc = "approval"
    /\ LET after == GateInterrupted(approved)
       IN  /\ pc' = after.pc
           /\ approved_actions' = after.approved_actions
           /\ exec_idx' = after.exec_idx
    /\ UNCHANGED <<mode, message, sender, result, idx, approved, presented,
                   responses, executed, artifacts, audit, errors, moved>>
    /\ UNCHANGED agent_vars
    /\ UNCHANGED audit_vars
    /\ UNCHANGED watch_vars

\* approval_flow: one pass of the loop body from input() on, for action idx;
\* then either the next action is printed or the function returns `approved`.
ApprovalRespond ==
    /\ pc = "approval"
    /\ \E raw \in Responses :
           LET actions == result.actions
               response == NormalizeResponse(raw)
               approvedNow == IF IsApproval(response)
                              THEN AppendApproved(approved, actions[idx])
                              ELSE approved
           IN  /\ responses' = Append(responses, raw)
               /\ approved' = approvedNow
               /\ IF NextIndex(idx) <= Len(actions)
                  THEN /\ idx' = NextIndex(idx)
                       /\ presented' = Append(presented, NextIndex(idx))
                       /\ pc' = "approval"
                       /\ approved_actions' = approved_actions
                  ELSE /\ idx' = idx
                       /\ presented' = presented
                       /\ pc' = "returned"
                       /\ approved_actions' = approvedNow
    /\ UNCHANGED <<mode, message, sender, result, exec_idx, executed, artifacts,
                   audit, errors, moved>>
    /\ UNCHANGED agent_vars
    /\ UNCHANGED audit_vars
    /\ UNCHANGED watch_vars

\* The caller of approval_flow: `if approved_actions: self.execute_actions(...)`.
\* The locals of approval_flow are gone.
ApprovalDispatch ==
    /\ pc = "returned"
    /\ idx' = 0
    /\ approved' = <<>>
    /\ presented' = <<>>
    /\ responses' = <<>>
    /\ IF approved_actions # <<>>
       THEN /\ pc' = "execute"
            /\ exec_idx' = 1
       ELSE /\ pc' = AfterBatch(mode)
            /\ exec_idx' = 0
    /\ UNCHANGED <<mode, message, sender, result, approved_actions, executed,
                   artifacts, audit, errors, moved>>
    /\ UNCHANGED agent_vars
    /\ UNCHANGED audit_vars
    /\ UNCHANGED watch_vars

\* execute_send_reply / execute_create_task: the file written for an action
Artifact(action, res) ==
    IF action.type = "send_reply"
    THEN [file |-> "reply_draft",
          to |-> action.data.recipient,
          priority |-> Get(res, "priority", "MEDIUM"),
          body |-> action.data.reply]
    ELSE [file |-> "task",
          priority |-> action.data.priority,
          body |-> action.data.task,
          source |-> Get(res, "sender", "Unknown"),
          category |-> Get(res, "category", "other")]

\* Variant: a failed action ends the batch.
AfterAttempt_stop_on_failure(ok, next, n) ==
    IF ok /\ next <= n THEN "execute" ELSE "log"

\* Variant: the audit entry is written after the first action.
AfterAttempt_log_first(ok, next, n) == "log"

\* `for action in actions`, after the try/except of one action (it succeeded
\* or its exception was printed): the next action, or log_execution after the
\* last one.
AfterAttempt(ok, next, n) == IF next <= n THEN "execute" ELSE "log"

\* execute_actions: one pass of the loop body, for action exec_idx.  The write
\* succeeds, or raises and the exception is caught and printed.
ExecuteAction ==
    /\ pc = "execute"
    /\ \E ok \in BOOLEAN :
           LET actions == ActionsToExecute(approved_actions, result)
               action == actions[exec_idx]
           IN  /\ executed' = Append(executed, [action |-> action, ok |-> ok])
               /\ artifacts' = IF ok
                               THEN Append(artifacts, Artifact(action, result))
                               ELSE artifacts
               /\ errors' = IF ok
                            THEN errors
                            ELSE Append(errors, "ERROR: Failed to execute")
               /\ exec_idx' = exec_idx + 1
               /\ pc' = AfterAttempt(ok, exec_idx + 1, Len(actions))
    /\ UNCHANGED <<mode, message, sender, result, idx, approved, presented,
                   responses, approved_actions, audit, moved>>
    /\ UNCHANGED agent_vars
    /\ UNCHANGED audit_vars
    /\ UNCHANGED watch_vars

\* Variant: the actions are listed last first.
AuditEntry_reversed(actions, res) ==
    [sender |-> Get(res, "sender", None),
     priority |-> Get(res, "priority", None),
     category |-> Get(res, "category", None),
     actions_executed |-> Len(actions),
     actions |-> [i \in DOMAIN actions |->
                     [type |-> actions[Len(actions) + 1 - i].type,
                      description |-> actions[Len(actions) + 1 - i].description]]]

\* log_execution: the audit entry of the batch
AuditEntry(actions, res) ==
    [sender |-> Get(res, "sender", None),
     priority |-> Get(res, "priority", None),
     category |-> Get(res, "category", None),
     actions_executed |-> Len(actions),
     actions |-> [i \in DOMAIN actions |->
                     [type |-> actions[i].type,
                      description |-> actions[i].description]]]

\* execute_actions: self.log_execution(actions, result).  The write succeeds,
\* or raises: process_message_file catches the exception, run_interactive
\* does not.
LogExecution ==
    /\ pc = "log"
    /\ \E ok \in BOOLEAN :
           IF ok
           THEN /\ audit' = AuditEntry(ActionsToExecute(approved_actions, result), result)
                /\ errors' = errors
                /\ pc' = AfterBatch(mode)
           ELSE /\ audit' = audit
                /\ errors' = IF mode = "watch"
                             THEN Append(errors, "ERROR: Failed to process message")
                             ELSE errors
                /\ pc' = IF mode = "watch" THEN "done" ELSE "crashed"
    /\ UNCHANGED <<mode, message, sender, result, idx, approved, presented,
                   responses, approved_actions, exec_idx, executed, artifacts,
                   moved>>
    /\ UNCHANGED agent_vars
    /\ UNCHANGED audit_vars
    /\ UNCHANGED watch_vars

\* process_message_file: file_path.rename(processed_path).  It succeeds, or
\* raises and the exception is caught and printed.
MoveFile ==
    /\ pc = "move"
    /\ \E ok \in BOOLEAN :
           /\ moved' = ok
           /\ errors' = IF ok
                        THEN errors
                        ELSE Append(errors, "ERROR: Failed to process message")
    /\ pc' = "done"
    /\ UNCHANGED <<mode, message, sender, result, idx, approved, presented,
                   responses, approved_actions, exec_idx, executed, artifacts,
                   audit>>
    /\ UNCHANGED agent_vars
    /\ UNCHANGED audit_vars
    /\ UNCHANGED watch_vars

\* Ctrl+C while execute_actions, log_execution or the rename runs.  The
\* handlers of execute_actions and process_message_file are `except Exception`
\* and let KeyboardInterrupt through; `except KeyboardInterrupt` of
\* watch_folder / run_interactive ends the loop where the batch stands.
ExecutionInterrupt ==
    /\ pc \in {"execute", "log", "move"}
    /\ pc' = "exit"
    /\ UNCHANGED <<mode, message, sender, result, idx, approved, presented,
                   responses, approved_actions, exec_idx, executed, artifacts,
                   audit, errors, moved>>
    /\ UNCHANGED agent_vars
    /\ UNCHANGED audit_vars
    /\ UNCHANGED watch_vars

\* The loop of run_interactive / watch_folder goes round: the message and
\* everything that belonged to it are gone.
LoopBack ==
    /\ pc = "done"
    /\ pc' = IF mode = "watch" THEN "poll" ELSE "prompt"
    /\ message' = NoMessage
    /\ sender' = None
    /\ result' = NoResult
    /\ idx' = 0
    /\ approved' = <<>>
    /\ presented' = <<>>
    /\ responses' = <<>>
    /\ approved_actions' = <<>>
    /\ exec_idx' = 0
    /\ executed' = <<>>
    /\ artifacts' = <<>>
    /\ audit' = NoAudit
    /\ errors' = <<>>
    /\ moved' = FALSE
    /\ UNCHANGED mode
    /\ UNCHANGED agent_vars
    /\ UNCHANGED audit_vars
    /\ UNCHANGED watch_vars

Next ==
    \/ InteractiveMessage
    \/ InteractiveQuit
    \/ InteractiveWatch
    \/ WatchProcessFile
    \/ WatchReadFails
    \/ WatchStop
    \/ ApprovalRespond
    \/ ApprovalInterrupt
    \/ ApprovalDispatch
    \/ ExecuteAction
    \/ LogExecution
    \/ MoveFile
    \/ ExecutionInterrupt
    \/ LoopBack

Spec == Init /\ [][Next]_vars

(***************************************************************************)
(* SpecAssemble: the Result Assembler and the direct heuristic path as     *)
(* functions of their inputs.                                              *)
(***************************************************************************)
InitAssemble ==
    /\ PipelineOff
    /\ AuditOff
    /\ WatchOff
    /\ invoked = <<>>
    /\ requests = <<>>
    /\ apc = "input"
    /\ amessage \in Messages
    /\ asender \in Senders
    /\ tool_results \in ToolResultSets(amessage)
    /\ synthesis = "narrative"
    /\ output = NoOutput
    /\ skills_output = NoOutput
    /\ llm = NoLLM
    /\ call_idx = 0
    /\ transcript = <<>>
    /\ llm_calls = 0

\* output = self._structure_output(message, sender, tool_results, synthesis)
StructureOutput ==
    /\ apc = "input"
    /\ output' = _structure_output(amessage, asender, tool_results, synthesis)
    /\ apc' = "assembled"
    /\ UNCHANGED <<amessage, asender, llm, call_idx, tool_results, transcript,
                   llm_calls, synthesis, skills_output, invoked, requests>>
    /\ UNCHANGED pipeline_vars
    /\ UNCHANGED audit_vars
    /\ UNCHANGED watch_vars

\* output["actions"] = self._determine_actions(output), on a record that
\* already holds its actions
RederiveActions ==
    /\ apc \in {"assembled", "rederived"}
    /\ output' = [output EXCEPT !.actions = _determine_actions(output)]
    /\ apc' = "rederived"
    /\ UNCHANGED <<amessage, asender, llm, call_idx, tool_results, transcript,
                   llm_calls, synthesis, skills_output, invoked, requests>>
    /\ UNCHANGED pipeline_vars
    /\ UNCHANGED audit_vars
    /\ UNCHANGED watch_vars

\* def analyze_with_skills(self, message, sender="Unknown")
DefaultSender(from) == IF from = None THEN "Unknown" ELSE from

\* result = self.analyze_with_skills(message, sender) on the same message
AnalyzeWithSkills ==
    /\ apc = "rederived"
    /\ skills_output = NoOutput
    /\ skills_output' = analyze_with_skills(amessage, DefaultSender(asender))
    /\ UNCHANGED <<apc, amessage, asender, llm, call_idx, tool_results, transcript,
                   llm_calls, synthesis, output, invoked, requests>>
    /\ UNCHANGED pipeline_vars
    /\ UNCHANGED audit_vars
    /\ UNCHANGED watch_vars

NextAssemble ==
    \/ StructureOutput
    \/ RederiveActions
    \/ AnalyzeWithSkills

SpecAssemble == InitAssemble /\ [][NextAssemble]_vars


(***************************************************************************)
(* SpecAgent: agent/brain.py FTEAgent.analyze_message, the Agent Loop.     *)
(*                                                                         *)
(* apc: "start"     before the planning call                               *)
(*      "tools"     in the loop over message_obj.tool_calls, at call_idx   *)
(*      "synthesis" before the synthesis call                              *)
(*      "returned"  analyze_message has returned `output`                  *)
(***************************************************************************)
\* The tool calls an LLM may request.  A call whose arguments are not JSON
\* fails before its name is used, and an unregistered name fails whatever
\* its arguments are, so one name stands for each of these.
ToolCallOptions ==
    {[name |-> n, arguments |-> a] : n \in ToolNames, a \in {"content", "badargs"}}
        \cup {[name |-> "web_search", arguments |-> "content"],
              [name |-> "summarizer", arguments |-> "malformed"]}

ToolCallLists == UNION {[1..n -> ToolCallOptions] : n \in 0..MaxCalls}

\* What the LLM does in one analyze_message: the planning call raises or
\* answers with tool calls (possibly none); the synthesis call raises or answers.
LLMBehaviours ==
    {[plan |-> "raise", tool_calls |-> <<>>, synth |-> "respond"]}
        \cup {[plan |-> "respond", tool_calls |-> <<>>, synth |-> "respond"]}
        \cup {[plan |-> "respond", tool_calls |-> calls, synth |-> sy] :
                 calls \in ToolCallLists \ {<<>>}, sy \in {"raise", "respond"}}

\* The messages the Agent Loop is run on.
AgentMessages == {m \in Messages : m.potential_tasks = <<ShortTask>>}

InitAgent ==
    /\ PipelineOff
    /\ AuditOff
    /\ WatchOff
    /\ invoked = <<>>
    /\ requests = <<>>
    /\ apc = "start"
    /\ amessage \in AgentMessages
    /\ asender \in Senders
    /\ llm \in LLMBehaviours
    /\ call_idx = 0
    /\ tool_results = <<>>
    /\ transcript = <<>>
    /\ llm_calls = 0
    /\ synthesis = None
    /\ output = NoOutput
    /\ skills_output = NoOutput

\* Variant: the payload names an unknown sender, as an assembled record does.
ErrorPayload_unknown_sender(e, m, from) ==
    [error |-> Str(e), message |-> m.text,
     sender |-> IF Truthy(from) THEN from ELSE "Unknown"]

\* except Exception as e: return {"error": str(e), "message": message, "sender": sender}
ErrorPayload(e, m, from) ==
    [error |-> Str(e), message |-> m.text, sender |-> from]

\* The planning or synthesis call fails: an exception of the client library.
APIError == Exception("APIConnectionError", "Connection error.", NoArg)

\* json.loads(tool_call.function.arguments) on a string that is not JSON
JSONDecodeError ==
    Exception("JSONDecodeError", "Expecting value: line 1 column 1 (char 0)", NoArg)

\* Variant: the first result stored under a name is kept.
Store_keep_first(results, tool_name, value) ==
    [k \in DOMAIN results \cup {tool_name} |->
        IF k \in DOMAIN results THEN results[k] ELSE value]

\* tool_results[tool_name] = result
Store(results, tool_name, value) ==
    [k \in DOMAIN results \cup {tool_name} |->
        IF k = tool_name THEN value ELSE results[k]]

\* Variant: every tool result refers to the first call.
ToolExchange_first_id(id, value) ==
    <<[role |-> "assistant", tool_calls |-> <<id>>],
      [role |-> "tool", tool_call_id |-> 1, content |-> value]>>

\* The two messages appended for one executed tool call: the assistant's
\* record of the call and the tool result that refers to it.  A call is
\* identified by its position in the planning response.
ToolExchange(id, value) ==
    <<[role |-> "assistant", tool_calls |-> <<id>>],
      [role |-> "tool", tool_call_id |-> id, content |-> value]>>

\* The request of the planning call: messages=messages, tools=self.tools,
\* tool_choice="auto".  msgs is the list `messages` after the two prompts.
PlanningRequest(msgs) == [messages |-> msgs, tools |-> TOOLS, tool_choice |-> "auto"]

\* Variant: the synthesis call offers the tools again.
SynthesisRequest_with_tools(msgs) ==
    [messages |-> msgs, tools |-> TOOLS, tool_choice |-> "auto"]

\* The request of the synthesis call: messages=messages and no tools.
SynthesisRequest(msgs) == [messages |-> msgs]

\* response = self.client.chat.completions.create(..., tools=self.tools, ...)
\* and, when the response requests no tool, the rest of analyze_message
PlanningCall ==
    /\ apc = "start"
    /\ llm_calls' = llm_calls + 1
    /\ IF llm.plan = "raise"
       THEN /\ output' = ErrorPayload(APIError, amessage, asender)
            /\ apc' = "returned"
            /\ UNCHANGED <<call_idx, synthesis>>
       ELSE IF llm.tool_calls # <<>>
            THEN /\ apc' = "tools"
                 /\ call_idx' = 1
                 /\ UNCHANGED <<output, synthesis>>
            ELSE /\ synthesis' = "planning content"
                 /\ output' = _structure_output(amessage, asender, <<>>,
                                                "planning content")
                 /\ apc' = "returned"
                 /\ UNCHANGED call_idx
    /\ requests' = Append(requests, PlanningRequest(transcript))
    /\ UNCHANGED <<amessage, asender, llm, tool_results, transcript, skills_output,
                   invoked>>
    /\ UNCHANGED pipeline_vars
    /\ UNCHANGED audit_vars
    /\ UNCHANGED watch_vars

\* One pass of `for tool_call in message_obj.tool_calls`
ToolCall ==
    /\ apc = "tools"
    /\ LET tool_call == llm.tool_calls[call_idx]
           tool_name == tool_call.name
       IN  IF tool_call.arguments = "malformed"
           THEN \* json.loads raises
                /\ output' = ErrorPayload(JSONDecodeError, amessage, asender)
                /\ apc' = "returned"
                /\ UNCHANGED <<call_idx, tool_results, transcript, invoked>>
           ELSE LET call == execute_tool(tool_name, tool_call.arguments, amessage)
                IN  /\ invoked' = invoked \o call.called
                    /\ IF "raises" \in DOMAIN call
                       THEN \* the exception reaches the except clause
                            /\ output' = ErrorPayload(call.raises, amessage, asender)
                            /\ apc' = "returned"
                            /\ UNCHANGED <<call_idx, tool_results, transcript>>
                       ELSE /\ tool_results' =
                                   Store(tool_results, tool_name, call.returns)
                            /\ transcript' = transcript \o
                                   ToolExchange(call_idx, call.returns)
                            /\ call_idx' = call_idx + 1
                            /\ apc' = IF call_idx + 1 <= Len(llm.tool_calls)
                                      THEN "tools"
                                      ELSE "synthesis"
                            /\ UNCHANGED output
    /\ UNCHANGED <<amessage, asender, llm, llm_calls, synthesis, skills_output,
                   requests>>
    /\ UNCHANGED pipeline_vars
    /\ UNCHANGED audit_vars
    /\ UNCHANGED watch_vars

\* final_response = self.client.chat.completions.create(...) and the rest of
\* analyze_message
SynthesisCall ==
    /\ apc = "synthesis"
    /\ llm_calls' = llm_calls + 1
    /\ IF llm.synth = "raise"
       THEN /\ output' = ErrorPayload(APIError, amessage, asender)
            /\ UNCHANGED synthesis
       ELSE /\ synthesis' = "final content"
            /\ output' = _structure_output(amessage, asender, tool_results,
                                           "final content")
    /\ apc' = "returned"
    /\ requests' = Append(requests, SynthesisRequest(transcript))
    /\ UNCHANGED <<amessage, asender, llm, call_idx, tool_results, transcript,
                   skills_output, invoked>>
    /\ UNCHANGED pipeline_vars
    /\ UNCHANGED audit_vars
    /\ UNCHANGED watch_vars

NextAgent ==
    \/ PlanningCall
    \/ ToolCall
    \/ SynthesisCall

SpecAgent == InitAgent /\ [][NextAgent]_vars

(***************************************************************************)
(* SpecAudit: main.py log_execution and the directory vault/logs over      *)
(* several batches.  The file of a batch is named after the second in      *)
(* which log_execution runs.                                               *)
(***************************************************************************)
\* The batches handed to log_execution: the approved actions and the record.
AuditBatches ==
    UNION {
        LET res == analyze_with_skills(m, "Unknown")
        IN  {[actions |-> a, result |-> res] :
                a \in {res.actions, Tail(res.actions), <<res.actions[1]>>}}
        : m \in AgentMessages }

InitAudit ==
    /\ PipelineOff
    /\ AgentOff
    /\ AuditOff
    /\ WatchOff

\* Variant: an existing file is left as it is.
WriteFile_keep_first(files, name, content) ==
    [k \in DOMAIN files \cup {name} |->
        IF k \in DOMAIN files THEN files[k] ELSE content]

\* with open(log_file, 'w') as f: json.dump(log_entry, f): the file is created,
\* or replaced if a file of that name exists.
WriteFile(files, name, content) ==
    [k \in DOMAIN files \cup {name} |-> IF k = name THEN content ELSE files[k]]

\* datetime.now().strftime("%Y%m%d_%H%M%S"): the next second begins
ClockTick ==
    /\ clock < MaxClock
    /\ clock' = clock + 1
    /\ UNCHANGED <<logs, logged, vault_actions>>
    /\ UNCHANGED pipeline_vars
    /\ UNCHANGED agent_vars
    /\ UNCHANGED watch_vars

\* log_execution(actions, result) for one batch: the entry is written to
\* execution_<second>.json, or the write raises and vault/logs is as it was.
LogBatch ==
    /\ logged < MaxBatches
    /\ \E batch \in AuditBatches, ok \in BOOLEAN :
           IF ok
           THEN /\ logs' = WriteFile(logs, clock,
                                     AuditEntry(batch.actions, batch.result))
                /\ logged' = logged + 1
           ELSE UNCHANGED <<logs, logged>>
    /\ UNCHANGED <<clock, vault_actions>>
    /\ UNCHANGED pipeline_vars
    /\ UNCHANGED agent_vars
    /\ UNCHANGED watch_vars

NextAudit ==
    \/ ClockTick
    \/ LogBatch

SpecAudit == InitAudit /\ [][NextAudit]_vars

(***************************************************************************)
(* SpecExecute: the Action Executor (main.py execute_actions) writing the  *)
(* artifacts of one batch into vault/actions while the clock runs.         *)
(*                                                                         *)
(* pc: "execute"  execute_actions about to run action exec_idx             *)
(*     "log"      execute_actions about to call log_execution              *)
(*     "logged"   log_execution has returned                               *)
(***************************************************************************)
\* The batches executed: every action derived for a message was approved.
ExecuteBatches ==
    {res \in {analyze_with_skills(m, "Unknown") : m \in Messages} :
        res.actions # <<>>}

\* reply_draft_<%Y%m%d_%H%M%S>.txt / task_<%Y%m%d_%H%M%S>.txt
ArtifactName(action, second) == <<Artifact(action, NoResult).file, second>>

InitExecute ==
    /\ AgentOff
    /\ WatchOff
    /\ pc = "execute"
    /\ mode = "interactive"
    /\ message = NoMessage
    /\ sender = None
    /\ result \in ExecuteBatches
    /\ idx = 0
    /\ approved = <<>>
    /\ presented = <<>>
    /\ responses = <<>>
    /\ approved_actions = result.actions
    /\ exec_idx = 1
    /\ executed = <<>>
    /\ artifacts = <<>>
    /\ audit = NoAudit
    /\ errors = <<>>
    /\ moved = FALSE
    /\ clock = 0
    /\ logs = <<>>
    /\ logged = 0
    /\ vault_actions = <<>>

\* datetime.now(): the next second begins while the batch is executed
ExecuteTick ==
    /\ pc = "execute"
    /\ clock < MaxClock
    /\ clock' = clock + 1
    /\ UNCHANGED <<logs, logged, vault_actions>>
    /\ UNCHANGED pipeline_vars
    /\ UNCHANGED agent_vars
    /\ UNCHANGED watch_vars

\* execute_actions: one pass of the loop body, for action exec_idx:
\* execute_send_reply / execute_create_task open the file named after the
\* type and the second with mode 'w' and write the artifact, or the write
\* raises and the exception is caught and printed.
WriteArtifact ==
    /\ pc = "execute"
    /\ \E ok \in BOOLEAN :
           LET actions == ActionsToExecute(approved_actions, result)
               action == actions[exec_idx]
           IN  /\ executed' = Append(executed, [action |-> action, ok |-> ok,
                                                second |-> clock])
               /\ vault_actions' =
                      IF ok
                      THEN WriteFile(vault_actions, ArtifactName(action, clock),
                                     Artifact(action, result))
                      ELSE vault_actions
               /\ artifacts' = IF ok
                               THEN Append(artifacts, Artifact(action, result))
                               ELSE artifacts
               /\ errors' = IF ok
                            THEN errors
                            ELSE Append(errors, "ERROR: Failed to execute")
               /\ exec_idx' = exec_idx + 1
               /\ pc' = AfterAttempt(ok, exec_idx + 1, Len(actions))
    /\ UNCHANGED <<mode, message, sender, result, idx, approved, presented,
                   responses, approved_actions, audit, moved>>
    /\ UNCHANGED <<clock, logs, logged>>
    /\ UNCHANGED agent_vars
    /\ UNCHANGED watch_vars

\* execute_actions: self.log_execution(actions, result) writes the entry
WriteAudit ==
    /\ pc = "log"
    /\ audit' = AuditEntry(ActionsToExecute(approved_actions, result), result)
    /\ logs' = WriteFile(logs, clock, audit')
    /\ logged' = logged + 1
    /\ pc' = "logged"
    /\ UNCHANGED <<mode, message, sender, result, idx, approved, presented,
                   responses, approved_actions, exec_idx, executed, artifacts,
                   errors, moved>>
    /\ UNCHANGED <<clock, vault_actions>>
    /\ UNCHANGED agent_vars
    /\ UNCHANGED watch_vars

NextExecute ==
    \/ ExecuteTick
    \/ WriteArtifact
    \/ WriteAudit

SpecExecute == InitExecute /\ [][NextExecute]_vars

(***************************************************************************)
(* SpecQuick: the quick mode of the agent (agent/brain.py quick_analyze).  *)
(*                                                                         *)
(* apc: "quick"           quick_analyze was called with amessage           *)
(*      "quick_returned"  it has returned `output`                         *)
(***************************************************************************)
\* What the LLM does in one quick_analyze: the call raises, answers with an
\* empty list of choices, or answers with text.
QuickBehaviours == {[quick |-> q] : q \in {"raise", "no_choices", "respond"}}

\* response.choices[0] on an empty list
IndexError == Exception("IndexError", "list index out of range", NoArg)

\* Variant: the tools are offered, as in the planning call of analyze_message.
QuickRequest_with_tools(m) ==
    [messages |-> <<[role |-> "system"],
                    [role |-> "user",
                     content |-> Description("Quickly analyze this message:", m.text)]>>,
     max_tokens |-> 500,
     tools |-> TOOLS,
     tool_choice |-> "auto"]

\* The request of quick_analyze: the system prompt and the message, no tools.
QuickRequest(m) ==
    [messages |-> <<[role |-> "system"],
                    [role |-> "user",
                     content |-> Description("Quickly analyze this message:", m.text)]>>,
     max_tokens |-> 500]

\* Variant: a failure is returned as an error payload, as analyze_message does.
QuickError_payload(e, m) == [error |-> Str(e), message |-> m.text]

\* except Exception as e: return f"Error: {str(e)}"
QuickError(e, m) == Description("Error: ", Str(e))

\* return response.choices[0].message.content
QuickContent == Description("quick content", NoArg)

InitQuick ==
    /\ PipelineOff
    /\ AuditOff
    /\ WatchOff
    /\ invoked = <<>>
    /\ requests = <<>>
    /\ apc = "quick"
    /\ amessage \in Messages
    /\ asender = None
    /\ llm \in QuickBehaviours
    /\ call_idx = 0
    /\ tool_results = <<>>
    /\ transcript = <<>>
    /\ llm_calls = 0
    /\ synthesis = None
    /\ output = NoOutput
    /\ skills_output = NoOutput

\* quick_analyze(message), from the call of chat.completions.create to the
\* return
QuickAnalyze ==
    /\ apc = "quick"
    /\ llm_calls' = llm_calls + 1
    /\ requests' = Append(requests, QuickRequest(amessage))
    /\ output' = CASE llm.quick = "raise" -> QuickError(APIError, amessage)
                   [] llm.quick = "no_choices" -> QuickError(IndexError, amessage)
                   [] llm.quick = "respond" -> QuickContent
    /\ apc' = "quick_returned"
    /\ UNCHANGED <<amessage, asender, llm, call_idx, tool_results, transcript,
                   synthesis, skills_output, invoked>>
    /\ UNCHANGED pipeline_vars
    /\ UNCHANGED audit_vars
    /\ UNCHANGED watch_vars

NextQuick ==
    \/ QuickAnalyze

SpecQuick == InitQuick /\ [][NextQuick]_vars

(***************************************************************************)
(* SpecSender: extract_sender (main.py) as a function of the file name and *)
(* of the content.  Here file_path is the name and sender the result, both *)
(* as sequences of characters, and message is content.split('\n').          *)
(*                                                                         *)
(* pc: "read"      process_message_file has read the file                  *)
(*     "extracted" extract_sender has returned `sender`                    *)
(***************************************************************************)
IsLetter(c) ==
    \E i \in DOMAIN UpperCase : c \in {UpperCase[i], LowerCase[i]}

\* str.upper() of one character.
UpperChar(c) ==
    IF \E i \in DOMAIN LowerCase : LowerCase[i] = c
    THEN UpperCase[CHOOSE i \in DOMAIN LowerCase : LowerCase[i] = c]
    ELSE c

\* str.title(): a letter that follows no letter is upper-cased, every other
\* letter lower-cased.
Title(cs) ==
    [i \in DOMAIN cs |->
        IF i = 1 \/ ~IsLetter(cs[i - 1])
        THEN UpperChar(cs[i])
        ELSE LowerChar(cs[i])]

\* s.startswith(w)
StartsWith(cs, w) == Take(cs, Len(w)) = w

\* s.find(w): the offset of the first occurrence of w in s, -1 if none.
Find(cs, w) ==
    IF Contains(cs, w)
    THEN CHOOSE i \in 0..(Len(cs) - Len(w)) :
             /\ SubSeq(cs, i + 1, i + Len(w)) = w
             /\ \A j \in 0..(i - 1) : SubSeq(cs, j + 1, j + Len(w)) # w
    ELSE -1

\* s.split(w)[1], for s containing w: what is between the first occurrence of
\* w and the next one (or the end).
SecondPart(cs, w) ==
    LET rest == SubSeq(cs, Find(cs, w) + Len(w) + 1, Len(cs))
    IN  IF Contains(rest, w) THEN SubSeq(rest, 1, Find(rest, w)) ELSE rest

\* s.split(w, 1)[1], for s containing w: all that follows the first occurrence.
AfterFirst(cs, w) == SubSeq(cs, Find(cs, w) + Len(w) + 1, Len(cs))

\* s.replace(old, new)
RECURSIVE Replace(_, _, _)
Replace(cs, old, new) ==
    IF Len(cs) < Len(old) \/ cs = <<>>
    THEN cs
    ELSE IF StartsWith(cs, old)
         THEN new \o Replace(SubSeq(cs, Len(old) + 1, Len(cs)), old, new)
         ELSE <<Head(cs)>> \o Replace(Tail(cs), old, new)

Unknown == <<"U", "n", "k", "n", "o", "w", "n">>

FromSeparator == <<"_", "f", "r", "o", "m", "_">>

FromPrefix == <<"f", "r", "o", "m", ":">>

\* The sender a file name gives:
\* filename.split("_from_")[1].replace(".txt", "").replace("_", " ").title()
NameSender(filename) ==
    Title(Replace(Replace(SecondPart(filename, FromSeparator),
                          <<".", "t", "x", "t">>, <<>>),
                  <<"_">>, <<" ">>))

\* The lines of lines[:5] that start with "from:" once lower-cased.
FromLineIndexes(lines) ==
    {i \in 1..Min(5, Len(lines)) : StartsWith(Lower(lines[i]), FromPrefix)}

\* for line in lines[:5]: the first such line
FirstFromLine(lines) ==
    lines[CHOOSE i \in FromLineIndexes(lines) :
              \A j \in FromLineIndexes(lines) : i <= j]

\* extract_sender(filename, content), on the characters of its arguments
extract_sender_from_text(filename, lines) ==
    IF Contains(filename, FromSeparator)
    THEN NameSender(filename)
    ELSE IF FromLineIndexes(lines) # {}
         THEN Strip(AfterFirst(FirstFromLine(lines), <<":">>))
         ELSE Unknown

\* The names of the files read.
FileNames ==
    {<<"n", ".", "t", "x", "t">>,
     <<"w", ".", "m", "d">>,
     <<"m", "_", "f", "r", "o", "m", "_", "j", "o", "_", "e", ".", "t", "x", "t">>,
     <<"m", "_", "f", "r", "o", "m", "_", ".", "t", "x", "t">>,
     <<"m", "_", "f", "r", "o", "m", "_", "a", "l", "_", "f", "r", "o", "m", "_", "b", "o", ".", "t", "x", "t">>}

\* Lines that start with "From:" in some letter case.
FromLines ==
    {<<"F", "r", "o", "m", ":", " ", "A", "l">>,
     <<"f", "r", "o", "m", ":", "b", "o", " ">>,
     <<"F", "R", "O", "M", ":">>,
     <<"F", "r", "o", "m", ":", " ">>}

\* n + 1 lines without a sender.
Filler(n) == << <<>> >> \o [i \in 1..n |-> <<"h", "i">>]

\* The contents read, line by line: no "From:" line; or one after n other
\* lines, alone or followed by another one.
Contents ==
    {Filler(n) : n \in 0..MaxLines}
        \cup {SubSeq(Filler(n), 2, n + 1) \o <<line>> :
                  n \in 0..MaxLines, line \in FromLines}
        \cup {SubSeq(Filler(n), 2, n + 1) \o <<line, <<"F", "r", "o", "m", ":", " ", "Z", "e", "d">>>> :
                  n \in 0..MaxLines, line \in FromLines}

InitSender ==
    /\ AgentOff
    /\ AuditOff
    /\ pc = "read"
    /\ mode = "watch"
    /\ message \in Contents
    /\ file_path \in FileNames
    /\ sender = None
    /\ result = NoResult
    /\ idx = 0
    /\ approved = <<>>
    /\ presented = <<>>
    /\ responses = <<>>
    /\ approved_actions = <<>>
    /\ exec_idx = 0
    /\ executed = <<>>
    /\ artifacts = <<>>
    /\ audit = NoAudit
    /\ errors = <<>>
    /\ moved = FALSE
    /\ wpc = "file"
    /\ inbox = <<>>
    /\ processed_dir = {}
    /\ inbox_files = <<>>
    /\ processed_files = {}
    /\ file_calls = <<>>
    /\ failures = <<>>
    /\ writing = NoFile
    /\ created = 0

\* process_message_file: sender = self.extract_sender(file_path.name, message)
ExtractSender ==
    /\ pc = "read"
    /\ sender' = extract_sender_from_text(file_path, message)
    /\ pc' = "extracted"
    /\ UNCHANGED <<mode, message, result, idx, approved, presented, responses,
                   approved_actions, exec_idx, executed, artifacts, audit,
                   errors, moved>>
    /\ UNCHANGED <<wpc, inbox, processed_dir, inbox_files, file_path,
                   processed_files, file_calls, failures, writing, created>>
    /\ UNCHANGED agent_vars
    /\ UNCHANGED audit_vars

NextSender ==
    \/ ExtractSender

SpecSender == InitSender /\ [][NextSender]_vars

(***************************************************************************)
(* SpecWatch: the Ingestion Loop (main.py watch_folder and                 *)
(* process_message_file) over vault/inbox, with the WhatsApp watcher       *)
(* (watchers/whatsapp_watcher.py) writing into the inbox from its own      *)
(* thread, as watch_whatsapp starts them.  What process_message_file does  *)
(* between the read and the rename is the pipeline of Spec; here only its  *)
(* outcome for the file counts.                                            *)
(*                                                                         *)
(* wpc: "glob"    top of `while self.running`, about to list the inbox     *)
(*      "loop"    `for file_path in inbox_files`, between two files        *)
(*      "file"    inside process_message_file, the file has been read      *)
(*      "stopped" watch_folder has returned                                *)
(***************************************************************************)
\* A file dropped into the inbox before the run.
Note == <<"note.txt", 0>>

\* whatsapp_<sender>_<int(time.time())>.md, written at second n
WhatsappFile(n) == <<"whatsapp_John.md", n>>

IsTxt(f) == f[1] = "note.txt"

\* Variant: only the *.txt files are listed.
Listings_txt_only(S) ==
    LET T == {f \in S : IsTxt(f)}
    IN  {seq \in [1..Cardinality(T) -> T] :
            \A a, b \in DOMAIN seq : a # b => seq[a] # seq[b]}

\* list(VAULT_INBOX.glob("*.txt")) + list(VAULT_INBOX.glob("*.md")): the
\* files of the directory, the .txt files first, in the order the file
\* system gives.
Listings(S) ==
    {seq \in [1..Cardinality(S) -> S] :
        /\ \A i, j \in DOMAIN seq : i # j => seq[i] # seq[j]
        /\ \A i, j \in DOMAIN seq : (i < j /\ IsTxt(seq[j])) => IsTxt(seq[i])}

\* A directory after a file was created or rewritten in it.
Put(box, f, state) ==
    [k \in DOMAIN box \cup {f} |-> IF k = f THEN state ELSE box[k]]

\* Variant: the file is copied to vault/processed and stays in the inbox.
AfterRename_copy(box, f) == box

\* file_path.rename(processed_path): the inbox without the file
AfterRename(box, f) == [k \in DOMAIN box \ {f} |-> box[k]]

\* Variant: the path of a relocated file is forgotten.
MarkProcessed_only_failed(seen, f, ok) == IF ok THEN seen ELSE seen \cup {f}

\* Variant: only a relocated file is remembered.
MarkProcessed_only_moved(seen, f, ok) == IF ok THEN seen \cup {f} ELSE seen

\* processed_files.add(file_path), after process_message_file returned
MarkProcessed(seen, f, ok) == seen \cup {f}

\* Variant: the file is handed to a worker and the loop goes on at once.
InsideCall_async == "loop"

\* self.process_message_file(file_path) is an ordinary call: watch_folder is
\* inside it until it returns.
InsideCall == "file"

\* Variant: a failure ends watch_folder.
AfterFailure_stops == "stopped"

\* `except Exception` of process_message_file printed the failure and the
\* function returned: watch_folder goes on with the next file of the list.
AfterFailure == "loop"

\* f.read() of a file: all of it when the writer has closed it; while the
\* writer is between open() and the end of its `with` block, whatever has
\* reached the file by then.
ReadOutcomes(state) ==
    IF state = "open" THEN {"partial", "whole"} ELSE {"whole"}

InitWatch ==
    /\ PipelineOff
    /\ AgentOff
    /\ AuditOff
    /\ wpc = "glob"
    /\ inbox \in {<<>>, [f \in {Note} |-> "closed"]}
    /\ processed_dir = {}
    /\ inbox_files = <<>>
    /\ file_path = NoFile
    /\ processed_files = {}
    /\ file_calls = <<>>
    /\ failures = <<>>
    /\ writing = NoFile
    /\ created = 0

\* watch_folder: inbox_files = list(glob("*.txt")) + list(glob("*.md"))
GlobInbox ==
    /\ wpc = "glob"
    /\ inbox_files' \in Listings(DOMAIN inbox)
    /\ wpc' = "loop"
    /\ UNCHANGED <<inbox, processed_dir, file_path, processed_files, file_calls,
                   failures, writing, created>>
    /\ UNCHANGED pipeline_vars
    /\ UNCHANGED agent_vars
    /\ UNCHANGED audit_vars

\* watch_folder: `if file_path not in processed_files` is false
SkipFile ==
    /\ wpc = "loop"
    /\ inbox_files # <<>>
    /\ Head(inbox_files) \in processed_files
    /\ inbox_files' = Tail(inbox_files)
    /\ UNCHANGED <<wpc, inbox, processed_dir, file_path, processed_files,
                   file_calls, failures, writing, created>>
    /\ UNCHANGED pipeline_vars
    /\ UNCHANGED agent_vars
    /\ UNCHANGED audit_vars

\* watch_folder calls process_message_file for a file not in processed_files;
\* the file is opened and read.
StartFile ==
    /\ wpc = "loop"
    /\ inbox_files # <<>>
    /\ Head(inbox_files) \notin processed_files
    /\ Head(inbox_files) \in DOMAIN inbox
    /\ LET f == Head(inbox_files)
       IN  \E text \in ReadOutcomes(inbox[f]) :
               file_calls' = Append(file_calls, [file |-> f,
                                                 state |-> inbox[f],
                                                 read |-> text,
                                                 outcome |-> "running"])
    /\ file_path' = Head(inbox_files)
    /\ wpc' = InsideCall
    /\ UNCHANGED <<inbox, processed_dir, inbox_files, processed_files,
                   failures, writing, created>>
    /\ UNCHANGED pipeline_vars
    /\ UNCHANGED agent_vars
    /\ UNCHANGED audit_vars

\* watch_folder calls process_message_file for a file not in processed_files;
\* open() or f.read() raises, the handler prints the failure, and the file is
\* added to processed_files.
ReadFails ==
    /\ wpc = "loop"
    /\ inbox_files # <<>>
    /\ Head(inbox_files) \notin processed_files
    /\ LET f == Head(inbox_files)
       IN  /\ file_calls' = Append(file_calls, [file |-> f,
                                      state |-> "unreadable",
                                      read |-> "nothing",
                                      outcome |-> "failed"])
           /\ failures' = Append(failures, f)
           /\ processed_files' = MarkProcessed(processed_files, f, FALSE)
    /\ inbox_files' = Tail(inbox_files)
    /\ wpc' = AfterFailure
    /\ UNCHANGED <<inbox, processed_dir, file_path, writing, created>>
    /\ UNCHANGED pipeline_vars
    /\ UNCHANGED agent_vars
    /\ UNCHANGED audit_vars

\* process_message_file: the pipeline of the file came to its end and the
\* file was renamed into vault/processed; watch_folder adds it to
\* processed_files.
FileMoved ==
    /\ wpc = "file"
    /\ inbox' = AfterRename(inbox, file_path)
    /\ processed_dir' = processed_dir \cup {file_path}
    /\ file_calls' = [file_calls EXCEPT ![Len(file_calls)].outcome = "moved"]
    /\ processed_files' = MarkProcessed(processed_files, file_path, TRUE)
    /\ inbox_files' = Tail(inbox_files)
    /\ file_path' = NoFile
    /\ wpc' = "loop"
    /\ UNCHANGED <<failures, writing, created>>
    /\ UNCHANGED pipeline_vars
    /\ UNCHANGED agent_vars
    /\ UNCHANGED audit_vars

\* process_message_file: an exception was raised after the read (by the
\* analysis, the display, the Approval Gate, log_execution or the rename
\* itself); the handler prints it, the rename has not happened, and
\* watch_folder adds the file to processed_files.
FileFails ==
    /\ wpc = "file"
    /\ failures' = Append(failures, file_path)
    /\ file_calls' = [file_calls EXCEPT ![Len(file_calls)].outcome = "failed"]
    /\ processed_files' = MarkProcessed(processed_files, file_path, FALSE)
    /\ inbox_files' = Tail(inbox_files)
    /\ file_path' = NoFile
    /\ wpc' = AfterFailure
    /\ UNCHANGED <<inbox, processed_dir, writing, created>>
    /\ UNCHANGED pipeline_vars
    /\ UNCHANGED agent_vars
    /\ UNCHANGED audit_vars

\* watch_folder: the list is exhausted; time.sleep(2) and the next poll
EndPoll ==
    /\ wpc = "loop"
    /\ inbox_files = <<>>
    /\ wpc' = "glob"
    /\ UNCHANGED <<inbox, processed_dir, inbox_files, file_path,
                   processed_files, file_calls, failures, writing, created>>
    /\ UNCHANGED pipeline_vars
    /\ UNCHANGED agent_vars
    /\ UNCHANGED audit_vars

\* watch_folder: KeyboardInterrupt, wherever the main thread is
WatchInterrupt ==
    /\ wpc \in {"glob", "loop", "file"}
    /\ wpc' = "stopped"
    /\ file_calls' = IF wpc = "file"
                THEN [file_calls EXCEPT ![Len(file_calls)].outcome = "interrupted"]
                ELSE file_calls
    /\ UNCHANGED <<inbox, processed_dir, inbox_files, file_path,
                   processed_files, failures, writing, created>>
    /\ UNCHANGED pipeline_vars
    /\ UNCHANGED agent_vars
    /\ UNCHANGED audit_vars

\* whatsapp_watcher: open(output_path, 'w') for a new message; the file
\* exists from now on, with nothing in it yet.
WatcherOpen ==
    /\ wpc # "stopped"
    /\ writing = NoFile
    /\ created < MaxFiles
    /\ inbox' = Put(inbox, WhatsappFile(created + 1), "open")
    /\ writing' = WhatsappFile(created + 1)
    /\ created' = created + 1
    /\ UNCHANGED <<wpc, processed_dir, inbox_files, file_path,
                   processed_files, file_calls, failures>>
    /\ UNCHANGED pipeline_vars
    /\ UNCHANGED agent_vars
    /\ UNCHANGED audit_vars

\* whatsapp_watcher: the f.write calls are done and the `with` block closes
\* the file (wherever the file is by now: it may have been relocated, and
\* another file put under its name).
WatcherClose ==
    /\ wpc # "stopped"
    /\ writing # NoFile
    /\ inbox' = IF writing \in DOMAIN inbox /\ inbox[writing] = "open"
                THEN Put(inbox, writing, "closed")
                ELSE inbox
    /\ writing' = NoFile
    /\ UNCHANGED <<wpc, processed_dir, inbox_files, file_path,
                   processed_files, file_calls, failures, created>>
    /\ UNCHANGED pipeline_vars
    /\ UNCHANGED agent_vars
    /\ UNCHANGED audit_vars

\* Somebody puts another message into the inbox under the name of a file
\* that was relocated to vault/processed.
DepositAgain ==
    /\ wpc # "stopped"
    /\ \E f \in processed_dir \ DOMAIN inbox :
           inbox' = Put(inbox, f, "new")
    /\ UNCHANGED <<wpc, processed_dir, inbox_files, file_path,
                   processed_files, file_calls, failures, writing, created>>
    /\ UNCHANGED pipeline_vars
    /\ UNCHANGED agent_vars
    /\ UNCHANGED audit_vars

NextWatch ==
    \/ DepositAgain
    \/ GlobInbox
    \/ SkipFile
    \/ StartFile
    \/ ReadFails
    \/ FileMoved
    \/ FileFails
    \/ EndPoll
    \/ WatchInterrupt
    \/ WatcherOpen
    \/ WatcherClose

SpecWatch == InitWatch /\ [][NextWatch]_vars

\* One step of the main thread inside watch_folder: the poll, the loop over
\* the listing, process_message_file up to its return (the human answers
\* each prompt), and the sleep before the next poll.
WatchFolderStep ==
    \/ GlobInbox
    \/ SkipFile
    \/ StartFile
    \/ ReadFails
    \/ FileMoved
    \/ FileFails
    \/ EndPoll

\* watch_folder without a KeyboardInterrupt.
NextWatchLive ==
    \/ DepositAgain
    \/ WatchFolderStep
    \/ WatcherOpen
    \/ WatcherClose

\* `while True:` of watch_folder keeps running: the main thread always takes
\* its next step.  Nothing is assumed of the watcher thread or of whoever
\* puts files into the inbox.
SpecWatchLive == InitWatch /\ [][NextWatchLive]_vars /\ WF_vars(WatchFolderStep)

(***************************************************************************)
(* Properties of the Result Assembler and of action derivation.            *)
(***************************************************************************)
Priorities == {"HIGH", "MEDIUM", "LOW"}

CategoryLabels == {"work", "personal", "study", "finance", "other"}

\* The records assembled so far: by _structure_output and by analyze_with_skills.
AssembledRecords == {r \in {output, skills_output} : r # NoOutput}

CountType(actions, type) ==
    Cardinality({i \in DOMAIN actions : actions[i].type = type})

\* The position before the first CreateTask action of a record.
ReplyOffset(r) == IF r.suggested_reply # None THEN 1 ELSE 0

\* C5: every record returned by analyze_message or by analyze_with_skills has a
\* priority among HIGH, MEDIUM, LOW and a category among work, personal, study,
\* finance, other.
C5_PriorityAndCategoryEnumerated ==
    \A r \in AssembledRecords :
        /\ "priority" \in DOMAIN r
        /\ r.priority \in Priorities
        /\ "category" \in DOMAIN r
        /\ r.category \in CategoryLabels

\* C6: no SendReply action is derived when the suggested reply is absent and
\* exactly one when it is present; there are as many CreateTask actions as
\* tasks in the record; no other kind of action is derived.
C6_ActionCounts ==
    \A r \in AssembledRecords :
        /\ r.suggested_reply = None => CountType(r.actions, "send_reply") = 0
        /\ r.suggested_reply # None => CountType(r.actions, "send_reply") = 1
        /\ CountType(r.actions, "create_task") = Len(r.tasks)
        /\ \A i \in DOMAIN r.actions :
               r.actions[i].type \in {"send_reply", "create_task"}

C6_Witness ==
    /\ apc = "rederived"
    /\ output.suggested_reply = None
    /\ Len(output.tasks) = 2
    /\ skills_output # NoOutput
    /\ skills_output.suggested_reply # None
    /\ Len(skills_output.tasks) = 2

\* C7: the SendReply action, when present, is the first action and carries the
\* reply text and the record's sender as recipient; the CreateTask actions
\* follow, the i-th one made from the i-th task of the record.
C7_OrderPreserved ==
    \A r \in AssembledRecords :
        /\ Len(r.actions) = ReplyOffset(r) + Len(r.tasks)
        /\ r.suggested_reply # None =>
               /\ r.actions[1].type = "send_reply"
               /\ r.actions[1].data.reply = r.suggested_reply
               /\ r.actions[1].data.recipient = r.sender
        /\ \A i \in DOMAIN r.tasks :
               /\ r.actions[ReplyOffset(r) + i].type = "create_task"
               /\ r.actions[ReplyOffset(r) + i].data.task
                      \in {r.tasks[i], r.tasks[i].title, r.tasks[i].description}

C7_Witness ==
    /\ apc = "assembled"
    /\ output.suggested_reply # None
    /\ Len(output.tasks) = 2
    /\ output.tasks[1].description # output.tasks[2].description

\* C8: deriving the actions again from a record that already holds its derived
\* actions yields the same action sequence and leaves every other field of the
\* record as it was.
C8_RederiveIdempotent ==
    [][apc' = "rederived" => output' = output]_vars

C8_Witness ==
    /\ apc = "rederived"
    /\ Len(output.actions) = 3

\* C9: every derived CreateTask action carries the record's priority and the
\* text of its task (the task's title or its full description).
C9_TaskTextAndPriority ==
    \A r \in AssembledRecords :
        \A i \in DOMAIN r.tasks :
            /\ r.actions[ReplyOffset(r) + i].data.priority = r.priority
            /\ r.actions[ReplyOffset(r) + i].data.task
                   \in {r.tasks[i].title, r.tasks[i].description}

\* The tool whose result a field of the record is read from.
FieldTool == [summary |-> "summarizer", priority |-> "priority_detector",
              category |-> "categorizer", suggested_reply |-> "reply_suggester",
              tasks |-> "task_extractor"]

\* tool_results without the result of tool n.
Without(results, n) == [k \in DOMAIN results \ {n} |-> results[k]]

Supplies(results, tool, key) ==
    tool \in DOMAIN results /\ key \in DOMAIN results[tool]

\* C10: the assembler's defaults are applied per field.  summary is absent
\* without a summarizer result; priority is MEDIUM unless priority_detector
\* supplies one; category is "other" unless categorizer supplies one; the
\* suggested reply is the first suggestion of reply_suggester if it has any and
\* absent otherwise; tasks are task_extractor's task list or empty; dropping one
\* tool's result changes no field read from another tool.
C10_DefaultsPerField ==
    apc \in {"assembled", "rederived"} =>
        /\ "summarizer" \notin DOMAIN tool_results => output.summary = None
        /\ Supplies(tool_results, "summarizer", "summary") =>
               output.summary = tool_results["summarizer"].summary
        /\ output.priority =
               IF Supplies(tool_results, "priority_detector", "priority")
               THEN tool_results["priority_detector"].priority
               ELSE "MEDIUM"
        /\ output.category =
               IF Supplies(tool_results, "categorizer", "category")
               THEN tool_results["categorizer"].category
               ELSE "other"
        /\ output.suggested_reply =
               IF Supplies(tool_results, "reply_suggester", "suggestions")
                  /\ Len(tool_results["reply_suggester"].suggestions) > 0
               THEN tool_results["reply_suggester"].suggestions[1]
               ELSE None
        /\ output.tasks =
               IF Supplies(tool_results, "task_extractor", "tasks")
               THEN tool_results["task_extractor"].tasks
               ELSE <<>>
        /\ \A n \in DOMAIN tool_results :
               LET other == _structure_output(amessage, asender,
                                              Without(tool_results, n), synthesis)
               IN  \A f \in DOMAIN FieldTool :
                       FieldTool[f] # n => other[f] = output[f]

C10_Witness ==
    /\ apc = "assembled"
    /\ DOMAIN tool_results = {"priority_detector", "reply_suggester", "task_extractor"}
    /\ "error" \in DOMAIN tool_results["reply_suggester"]
    /\ output.priority = "HIGH"
    /\ output.suggested_reply = None
    /\ output.summary = None
    /\ Len(output.tasks) = 1


(***************************************************************************)
(* Properties of the Approval Gate and of the pipeline.                    *)
(***************************************************************************)
\* The upper-case form of a lower-case letter.
UpperOf(c) == UpperCase[CHOOSE i \in DOMAIN LowerCase : LowerCase[i] = c]

\* raw is the word, in any letter case, with nothing but whitespace around it.
Spells(raw, word) ==
    \E before \in 0..Len(raw) :
        /\ before + Len(word) <= Len(raw)
        /\ \A i \in 1..before : raw[i] \in Whitespace
        /\ \A i \in 1..Len(word) : raw[before + i] \in {word[i], UpperOf(word[i])}
        /\ \A i \in (before + Len(word) + 1)..Len(raw) : raw[i] \in Whitespace

\* An approving input: empty, "y" or "yes".
SaysYes(raw) ==
    \/ Spells(raw, <<>>)
    \/ Spells(raw, <<"y">>)
    \/ Spells(raw, <<"y", "e", "s">>)

\* An approving input as the specification words it: empty or "yes".
SaysYesSpelledOut(raw) ==
    \/ Spells(raw, <<>>)
    \/ Spells(raw, <<"y", "e", "s">>)

\* The actions whose response approves, in their original order.
RECURSIVE ApprovedSubsequence(_, _)
ApprovedSubsequence(actions, answers) ==
    IF actions = <<>> \/ answers = <<>>
    THEN <<>>
    ELSE (IF SaysYes(Head(answers)) THEN <<Head(actions)>> ELSE <<>>)
             \o ApprovedSubsequence(Tail(actions), Tail(answers))

\* C1: an action is executed only if the Approval Gate approved it in the
\* current batch.  Nothing is executed while the gate is open; what the gate
\* returns was presented and answered with an approval; what is executed, and
\* every artifact written, is what the gate returned.
C1_ExecutedOnlyIfApproved ==
    /\ pc \in {"approval", "returned"} => executed = <<>> /\ artifacts = <<>>
    /\ pc = "returned" =>
           \A k \in DOMAIN approved_actions :
               \E i \in DOMAIN responses :
                   /\ presented[i] = i
                   /\ result.actions[i] = approved_actions[k]
                   /\ SaysYes(responses[i])
    /\ Len(executed) <= Len(approved_actions)
    /\ \A k \in DOMAIN executed : executed[k].action = approved_actions[k]
    /\ \A a \in DOMAIN artifacts :
           \E k \in DOMAIN executed :
               /\ executed[k].ok
               /\ artifacts[a] = Artifact(approved_actions[k], result)

C1_Witness ==
    /\ pc = "log"
    /\ Len(result.actions) = 3
    /\ Len(approved_actions) = 2
    /\ Len(artifacts) = 2

\* C2: approval_flow returns exactly the actions whose response approved, in
\* their original order; all-empty responses return every action, and
\* reject-first-accept-rest returns all but the first.
C2_ReturnsApprovedSubsequence ==
    pc = "returned" =>
        /\ Len(responses) = Len(result.actions)
        /\ approved_actions = ApprovedSubsequence(result.actions, responses)
        /\ (\A i \in DOMAIN responses : responses[i] = <<>>) =>
               approved_actions = result.actions
        /\ (/\ ~SaysYes(responses[1])
            /\ \A i \in 2..Len(responses) : SaysYes(responses[i])) =>
               approved_actions = Tail(result.actions)

C2_Witness ==
    /\ pc = "returned"
    /\ Len(result.actions) = 3
    /\ ~SaysYes(responses[1])
    /\ SaysYes(responses[2])
    /\ SaysYes(responses[3])
    /\ approved_actions = Tail(result.actions)
    /\ approved_actions[1] # approved_actions[2]

\* C3 as stated: empty input and any case-insensitive spelling of "yes"
\* approve the action, every other response rejects it.
C3_OnlyYesApproves ==
    [][Len(responses') = Len(responses) + 1 =>
          IF SaysYesSpelledOut(responses'[Len(responses')])
          THEN approved' = Append(approved, result.actions[idx])
          ELSE approved' = approved]_vars

\* C3, amended: the response is stripped of surrounding whitespace and
\* lower-cased; empty input, "y" and "yes" approve the action, every other
\* response rejects it.
C3_YOrYesApproves ==
    [][Len(responses') = Len(responses) + 1 =>
          IF SaysYes(responses'[Len(responses')])
          THEN approved' = Append(approved, result.actions[idx])
          ELSE approved' = approved]_vars

C3_Witness ==
    /\ pc = "approval"
    /\ responses = << <<"Y">>, <<"n", "o">> >>
    /\ approved = <<result.actions[1]>>

\* C4: the gate is sequential.  While it waits for the response to action idx
\* it has presented actions 1..idx, each once and in list order, and has read
\* idx - 1 responses; once it has read the response to the last action it has
\* returned the approved list.
C4_SequentialGate ==
    /\ pc = "approval" =>
           /\ idx \in 1..Len(result.actions)
           /\ presented = [i \in 1..idx |-> i]
           /\ Len(responses) = idx - 1
    /\ pc = "returned" =>
           /\ presented = [i \in 1..Len(result.actions) |-> i]
           /\ Len(responses) = Len(result.actions)
           /\ approved_actions = approved

C4_Witness ==
    /\ pc = "returned"
    /\ Len(result.actions) = 3
    /\ Len(responses) = 3
    /\ Len(approved_actions) = 1

(***************************************************************************)
(* Properties of the Tool Registry and of the Agent Loop.                  *)
(***************************************************************************)
\* The tool call the loop of analyze_message is about to execute.
CurrentCall == llm.tool_calls[call_idx]

\* A diagnostic string that is not empty.
NonEmpty(d) == d.literal # "" \/ d.arg # NoArg

\* C11: execute_tool with a name that is not registered returns an error
\* result that identifies an unknown tool, raises nothing into analyze_message
\* (the loop goes on to the next call or to the synthesis) and calls no tool
\* function.
C11_UnknownToolIsErrorResult ==
    [][(/\ apc = "tools"
        /\ CurrentCall.name \notin ToolNames
        /\ CurrentCall.arguments # "malformed") =>
           /\ apc' \in {"tools", "synthesis"}
           /\ call_idx' = call_idx + 1
           /\ CurrentCall.name \in DOMAIN tool_results'
           /\ tool_results'[CurrentCall.name] =
                  [error |-> [literal |-> "Unknown tool: ",
                              arg |-> CurrentCall.name]]
           /\ invoked' = invoked]_vars

C11_Witness ==
    /\ apc = "synthesis"
    /\ call_idx = 3
    /\ llm.tool_calls[1].name \in ToolNames
    /\ llm.tool_calls[2].name \notin ToolNames
    /\ "web_search" \in DOMAIN tool_results
    /\ Len(invoked) = 1

FailingStep ==
    \/ apc = "start" /\ llm.plan = "raise"
    \/ apc = "tools" /\ CurrentCall.arguments = "malformed"
    \/ apc = "synthesis" /\ llm.synth = "raise"

\* C13: an exception raised in the body of analyze_message does not leave it:
\* analyze_message returns a payload that carries a diagnostic string and the
\* message and sender it was called with, unchanged.
C13_FailureContained ==
    [][FailingStep =>
           /\ apc' = "returned"
           /\ DOMAIN output' = {"error", "message", "sender"}
           /\ NonEmpty(output'.error)
           /\ output'.message = amessage.text
           /\ output'.sender = asender
           /\ amessage' = amessage
           /\ asender' = asender]_vars

C13_Witness ==
    /\ apc = "returned"
    /\ llm.synth = "raise"
    /\ llm_calls = 2
    /\ asender = None
    /\ "error" \in DOMAIN output
    /\ output.sender = None

\* C14: a tool call whose arguments cannot be parsed fails alone: when
\* analyze_message has returned, every other tool call of the round has been
\* executed and the results collected are those the returned record was
\* assembled from.
C14_ParseFailureScoped ==
    (apc = "returned" /\ llm.plan = "respond" /\ llm.synth = "respond") =>
        /\ \A k \in DOMAIN llm.tool_calls :
               llm.tool_calls[k].arguments # "malformed" =>
                   llm.tool_calls[k].name \in DOMAIN tool_results
        /\ "analysis" \in DOMAIN output
        /\ output = _structure_output(amessage, asender, tool_results,
                                      output.analysis)

C16_FallsBackToHeuristics ==
    (/\ apc = "returned"
     /\ \/ llm.plan = "raise"
        \/ llm.synth = "raise" /\ llm_calls = 2) =>
        LET heuristic == analyze_with_skills(amessage, DefaultSender(asender))
        IN  /\ {"priority", "category", "tasks", "actions"} \subseteq DOMAIN output
            /\ output.priority = heuristic.priority
            /\ output.category = heuristic.category
            /\ output.tasks = heuristic.tasks
            /\ output.actions = heuristic.actions

(***************************************************************************)
(* Properties of the Action Executor and of the audit log.                 *)
(***************************************************************************)
\* The number of elements of a sequence that satisfy Test.
CountOf(seq, Test(_)) == Cardinality({i \in DOMAIN seq : Test(seq[i])})

Failed(attempt) == ~attempt.ok

IsExecuteError(line) == line = "ERROR: Failed to execute"

\* C17: the actions of an approved batch are attempted one after the other in
\* list order; an action that fails is reported and the batch goes on: when
\* the executor has finished, every action of the batch has been attempted,
\* and one error line was printed per failed action.
C17_ExecutorIndependence ==
    /\ pc = "execute" =>
           /\ exec_idx \in 1..Len(approved_actions)
           /\ Len(executed) = exec_idx - 1
    /\ pc \in {"log", "move", "done", "crashed"} /\ approved_actions # <<>> =>
           Len(executed) = Len(approved_actions)
    /\ \A k \in DOMAIN executed : executed[k].action = approved_actions[k]
    /\ CountOf(errors, IsExecuteError) = CountOf(executed, Failed)

C17_Witness ==
    /\ pc = "log"
    /\ Len(executed) = 3
    /\ ~executed[1].ok
    /\ executed[2].ok
    /\ ~executed[3].ok
    /\ Len(artifacts) = 1

\* C18: the audit entry of a batch is written once every action of the batch
\* has been attempted and not before; its sender, priority and category are
\* those of the batch's record, its count is the length of its action list,
\* and that list is the attempted actions (type and description) in order.  A
\* batch that got past log_execution has its entry.
C18_OneAuditEntryPerBatch ==
    /\ pc \in {"prompt", "poll", "approval", "returned", "execute", "log"} =>
           audit = NoAudit
    /\ audit # NoAudit =>
           /\ executed # <<>>
           /\ Len(executed) = Len(approved_actions)
           /\ audit.sender = result.sender
           /\ audit.priority = result.priority
           /\ audit.category = result.category
           /\ audit.actions_executed = Len(audit.actions)
           /\ Len(audit.actions) = Len(executed)
           /\ \A k \in DOMAIN executed :
                  audit.actions[k] =
                      [type |-> executed[k].action.type,
                       description |-> executed[k].action.description]
    /\ (/\ executed # <<>>
        /\ \/ pc = "move"
           \/ pc = "done" /\ mode = "interactive") => audit # NoAudit

C18_Witness ==
    /\ pc = "move"
    /\ audit # NoAudit
    /\ audit.actions_executed = 2
    /\ Len(result.actions) = 3
    /\ audit.actions[1].type = "send_reply"
    /\ audit.actions[2].type = "create_task"

\* C19: the audit entry counts and lists only the actions whose execution
\* succeeded (whose artifact was written); a failed action is not in it.
C19_AuditListsExecutedOnly ==
    audit # NoAudit =>
        /\ audit.actions_executed = Len(artifacts)
        /\ audit.actions_executed = Len(executed) - CountOf(executed, Failed)
        /\ \A k \in DOMAIN audit.actions : executed[k].ok

\* C20: the audit log is append-only with one file per batch: after k logged
\* batches, k audit entries exist.
C20_OneFilePerBatch == Cardinality(DOMAIN logs) = logged

(***************************************************************************)
(* Failures and interrupts in the orchestrator (main.py).                  *)
(***************************************************************************)
\* A step of log_execution that wrote no entry and was not interrupted.
AuditWriteFails == pc = "log" /\ pc' # "exit" /\ audit' = NoAudit

\* C21 (as stated): a failed audit write keeps the artifacts of the batch and
\* ends the logging step only: in watch mode the pipeline goes on to the
\* relocation of the source file, in interactive mode to the next prompt.
C21_AuditFailureEndsLoggingOnly ==
    [][AuditWriteFails =>
          /\ artifacts' = artifacts
          /\ pc' = IF mode = "watch" THEN "move" ELSE "done"]_vars

\* C22 (as stated): in every mode, no failure in analysis, action execution
\* or audit logging for one message ends the process.
C22_FailureNeverEndsProcess == pc # "crashed"

\* C27: an interrupt while the Approval Gate waits for a response abandons the
\* batch: the process ends there with no action executed (not even one that
\* was already approved), no artifact, no audit entry and the source file
\* not relocated, and nothing happens after the process ended.
C27_InterruptedGateExecutesNothing ==
    [][/\ (pc = "approval" /\ responses' = responses) =>
              /\ pc' = "exit"
              /\ approved_actions' = <<>>
              /\ executed' = <<>>
              /\ artifacts' = <<>>
              /\ audit' = NoAudit
              /\ ~moved'
       /\ pc # "exit"]_vars

\* The gate was interrupted at the second action, after the first one had been
\* approved.
C27_Witness ==
    /\ pc = "exit"
    /\ idx = 2
    /\ approved # <<>>
    /\ executed = <<>>
    /\ audit = NoAudit
    /\ ~moved

\* C28 (as stated): when an interrupt stops the Ingestion Loop, the file being
\* processed has been finished first: every approved action was attempted,
\* the audit entry was written and the file was relocated.
C28_InterruptFinishesCurrentFile ==
    (mode = "watch" /\ pc = "exit" /\ approved_actions # <<>>) =>
        /\ Len(executed) = Len(approved_actions)
        /\ audit # NoAudit
        /\ moved

(***************************************************************************)
(* Properties of the Ingestion Loop (main.py watch_folder,                 *)
(* process_message_file) and of its inbox.                                 *)
(***************************************************************************)
InSeq(seq, x) == \E i \in DOMAIN seq : seq[i] = x

\* C23: an exception raised while one inbox file is processed is caught and
\* logged (one error line, for that file), and the loop goes on: it is
\* between two files again, with the rest of the poll's list still to visit.
C23_FileFailureContained ==
    [][failures' # failures =>
          /\ failures' = Append(failures, Head(inbox_files))
          /\ wpc' = "loop"
          /\ inbox_files' = Tail(inbox_files)]_vars

\* The first file failed, the next one was relocated, and the next poll is
\* about to start.
C23_Witness ==
    /\ wpc = "glob"
    /\ Len(file_calls) >= 2
    /\ file_calls[1].outcome = "failed"
    /\ file_calls[2].outcome = "moved"

\* C24: within one run no file is handed to process_message_file more than
\* once.
C24_NoFileProcessedTwice ==
    \A i, j \in DOMAIN file_calls :
        i # j => file_calls[i].file # file_calls[j].file

\* A later poll lists a file that was processed and is still in the inbox.
C24_Witness ==
    /\ wpc = "loop"
    /\ inbox_files # <<>>
    /\ Head(inbox_files) \in processed_files
    /\ Head(inbox_files) \in DOMAIN inbox
    /\ \E i \in DOMAIN file_calls : file_calls[i].file = Head(inbox_files)

\* The file is in the inbox (the file itself, not another message put under
\* its name later).
InInbox(f) == f \in DOMAIN inbox /\ inbox[f] # "new"

\* C25: once process_message_file has returned for a file, the file is out of
\* the inbox and in vault/processed under its name when processing succeeded;
\* a file that is still in the inbox has a logged failure.
C25_MovedOrFailureLogged ==
    \A i \in DOMAIN file_calls :
        LET c == file_calls[i]
        IN  /\ c.outcome = "moved" =>
                   (~InInbox(c.file) /\ c.file \in processed_dir)
            /\ (c.outcome \in {"moved", "failed"} /\ InInbox(c.file)) =>
                   InSeq(failures, c.file)

\* One file was relocated and another one failed and is still in the inbox.
C25_Witness ==
    /\ \E i \in DOMAIN file_calls : file_calls[i].outcome = "moved"
    /\ \E i \in DOMAIN file_calls :
           /\ file_calls[i].outcome = "failed"
           /\ InInbox(file_calls[i].file)

\* C26: at most one pipeline is in flight: only the latest
\* process_message_file call can be running, so a file is read only after the
\* call for the file before it has returned.
C26_OnePipelineInFlight ==
    /\ \A i \in DOMAIN file_calls :
           file_calls[i].outcome = "running" => i = Len(file_calls)
    /\ wpc = "file" <=>
           (file_calls # <<>> /\ file_calls[Len(file_calls)].outcome = "running")

\* A second file is being processed.
C26_Witness ==
    /\ Len(file_calls) >= 2
    /\ file_calls[Len(file_calls)].outcome = "running"
    /\ wpc = "file"

\* C29 (as stated): the Ingestion Loop reads only files whose writer has
\* finished: every file it read was closed and was read whole.
C29_ReadsOnlyFinishedFiles ==
    \A i \in DOMAIN file_calls :
        file_calls[i].read # "nothing" =>
            (file_calls[i].state = "closed" /\ file_calls[i].read = "whole")

(***************************************************************************)
(* Properties of the quick mode (agent/brain.py quick_analyze).            *)
(***************************************************************************)
\* A str built by an f-string or taken from the completion, not a dict.
IsText(value) == DOMAIN value = {"literal", "arg"}

\* C30: quick_analyze makes exactly one LLM call, with no tools offered,
\* invokes no analyzer and returns text only; a failure of the call comes back
\* as the text "Error: <message>", never as an exception or a payload.
C30_QuickModeOneCallNoTools ==
    /\ invoked = <<>>
    /\ tool_results = <<>>
    /\ llm_calls = Len(requests)
    /\ apc = "quick" => llm_calls = 0
    /\ apc = "quick_returned" =>
           /\ llm_calls = 1
           /\ "tools" \notin DOMAIN requests[1]
           /\ IsText(output)
           /\ llm.quick = "raise" => output = Description("Error: ", Str(APIError))
           /\ llm.quick = "no_choices" =>
                  output = Description("Error: ", Str(IndexError))
           /\ llm.quick = "respond" => output = QuickContent

\* The LLM call failed and quick_analyze returned the diagnostic.
C30_Witness ==
    /\ apc = "quick_returned"
    /\ llm.quick = "raise"
    /\ output = Description("Error: ", Str(APIError))
    /\ llm_calls = 1

(***************************************************************************)
(* Further properties of the orchestrator pipeline (main.py).              *)
(***************************************************************************)
\* C31: a rejected action leaves no persisted record.  There are never more
\* artifacts than approved actions, and an audit entry lists the approved
\* actions and nothing else; when no action was approved (all rejected, or
\* none derived) nothing is executed and no artifact and no audit entry is
\* written, and in watch mode the file is still relocated (unless the rename
\* itself fails, which is printed).
C31_RejectedLeavesNoRecord ==
    /\ Len(artifacts) <= Len(approved_actions)
    /\ audit # NoAudit =>
           /\ audit.actions_executed = Len(approved_actions)
           /\ DOMAIN audit.actions = DOMAIN approved_actions
           /\ \A i \in DOMAIN approved_actions :
                  /\ audit.actions[i].type = approved_actions[i].type
                  /\ audit.actions[i].description = approved_actions[i].description
    /\ approved_actions = <<>> =>
           (executed = <<>> /\ artifacts = <<>> /\ audit = NoAudit)
    /\ (mode = "watch" /\ pc = "done" /\ result # NoResult
           /\ approved_actions = <<>>) =>
           (moved \/ errors # <<>>)

\* In watch mode every action of a batch of two or more was rejected; nothing
\* was written and the file was relocated.
C31_Witness ==
    /\ mode = "watch"
    /\ pc = "done"
    /\ result # NoResult
    /\ Len(result.actions) >= 2
    /\ approved_actions = <<>>
    /\ artifacts = <<>>
    /\ audit = NoAudit
    /\ moved

\* The stages of one message are in order.
StageOrder ==
    /\ pc \in {"approval", "returned"} =>
           /\ result # NoResult
           /\ executed = <<>>
           /\ audit = NoAudit
           /\ ~moved
    /\ pc = "execute" =>
           /\ responses = <<>>
           /\ approved = <<>>
           /\ exec_idx = Len(executed) + 1
           /\ audit = NoAudit
           /\ ~moved
    /\ pc = "log" => (audit = NoAudit /\ ~moved)
    /\ audit # NoAudit => Len(executed) = Len(approved_actions)
    /\ pc = "move" =>
           /\ ~moved
           /\ result # NoResult
           /\ approved_actions # <<>> =>
                  (audit # NoAudit /\ Len(executed) = Len(approved_actions))
    /\ moved => pc = "done"

\* C33: for one ingested file the analysis precedes the Approval Gate, the
\* gate has returned before any action is executed, the audit entry is written
\* after the last action attempt, the file is relocated only after all of
\* these, and after the relocation nothing of that file runs: the only step
\* is the loop going round, which forgets the file.
C33_StagesInOrder ==
    /\ []StageOrder
    /\ [][moved =>
              /\ pc' = "poll"
              /\ result' = NoResult
              /\ executed' = <<>>
              /\ ~moved']_vars

\* A file whose batch of two approved actions was executed and logged has
\* been relocated.
C33_Witness ==
    /\ mode = "watch"
    /\ pc = "done"
    /\ moved
    /\ Len(approved_actions) = 2
    /\ Len(executed) = 2
    /\ audit # NoAudit

\* C35: the Approval Gate only filters.  A step of approval_flow leaves the
\* AnalysisRecord (its actions included) as it is and writes nothing: no
\* artifact, no audit entry, no file in vault/logs; what it adds to its list is
\* the derived action itself, and what it returns are actions of the record,
\* unmodified.
C35_GateOnlyFilters ==
    [][pc = "approval" =>
          /\ result' = result
          /\ message' = message
          /\ artifacts' = artifacts
          /\ audit' = audit
          /\ logs' = logs
          /\ \/ approved' = approved
             \/ approved' = Append(approved, result.actions[idx])
          /\ \A k \in DOMAIN approved_actions' :
                 \E i \in DOMAIN result.actions :
                     approved_actions'[k] = result.actions[i]]_vars

\* The gate has returned the second of three derived actions.
C35_Witness ==
    /\ pc = "returned"
    /\ Len(result.actions) = 3
    /\ approved_actions = <<result.actions[2]>>
    /\ approved_actions[1] # result.actions[1]

(***************************************************************************)
(* Properties of extract_sender (main.py).                                 *)
(***************************************************************************)
\* The sender follows the rule: the file name when it has a "_from_" part,
\* else the first "From:" line among the first five, else "Unknown".
SenderFollowsRule ==
    pc = "extracted" =>
        IF Contains(file_path, FromSeparator)
        THEN sender = NameSender(file_path)
        ELSE IF \E i \in 1..Min(5, Len(message)) :
                    StartsWith(Lower(message[i]), FromPrefix)
             THEN \E i \in 1..Min(5, Len(message)) :
                      /\ StartsWith(Lower(message[i]), FromPrefix)
                      /\ \A j \in 1..(i - 1) :
                             ~StartsWith(Lower(message[j]), FromPrefix)
                      /\ sender = Strip(SubSeq(message[i], 6, Len(message[i])))
             ELSE sender = Unknown

\* C36 (as stated): the sender of an ingested message is never absent, and
\* it follows the rule.
C36_SenderNeverAbsent ==
    /\ SenderFollowsRule
    /\ pc = "extracted" => sender # <<>>

(***************************************************************************)
(* Properties of the artifacts in vault/actions (main.py                   *)
(* execute_send_reply, execute_create_task).                               *)
(***************************************************************************)
\* The attempts that wrote the file `name`.
WritersOf(name) ==
    {k \in DOMAIN executed :
        executed[k].ok /\ ArtifactName(executed[k].action, executed[k].second) = name}

Max(S) == CHOOSE k \in S : \A j \in S : j <= k

\* C37: two actions of the same type executed within the same second target
\* the same file.  vault/actions holds one file per type and second written
\* in, with the content of the last action written there; every such action
\* succeeded, and once the batch is logged the audit entry lists them all.
C37_LastWriteWins ==
    /\ DOMAIN vault_actions =
           {ArtifactName(executed[k].action, executed[k].second) :
               k \in {j \in DOMAIN executed : executed[j].ok}}
    /\ \A name \in DOMAIN vault_actions :
           vault_actions[name] =
               Artifact(executed[Max(WritersOf(name))].action, result)
    /\ pc = "logged" =>
           /\ audit.actions_executed = Len(executed)
           /\ \A k \in DOMAIN executed :
                  /\ audit.actions[k].type = executed[k].action.type
                  /\ audit.actions[k].description = executed[k].action.description

\* Two different tasks were written in the same second: one file holds the
\* later one, both succeeded and both are in the audit entry.
C37_Witness ==
    /\ pc = "logged"
    /\ \E i, j \in DOMAIN executed :
           /\ i < j
           /\ executed[i].ok
           /\ executed[j].ok
           /\ executed[i].action.type = "create_task"
           /\ executed[j].action.type = "create_task"
           /\ executed[i].second = executed[j].second
           /\ executed[i].action # executed[j].action
           /\ WritersOf(ArtifactName(executed[j].action, executed[j].second)) = {i, j}
           /\ vault_actions[ArtifactName(executed[j].action, executed[j].second)]
                  = Artifact(executed[j].action, result)
           /\ vault_actions[ArtifactName(executed[j].action, executed[j].second)]
                  # Artifact(executed[i].action, result)
    /\ audit.actions_executed = Len(executed)

(***************************************************************************)
(* Further properties of the Ingestion Loop.                               *)
(***************************************************************************)
\* A new message under a used path has its path in processed_files, and no
\* call of process_message_file has read one.
NewMessageNeverRead ==
    /\ \A f \in DOMAIN inbox : inbox[f] = "new" => f \in processed_files
    /\ \A i \in DOMAIN file_calls : file_calls[i].state # "new"

\* C38: within one run of watch_folder the set of seen paths only grows, and
\* a new message put into the inbox under a path that was already processed
\* is never read: its path is in the set, whatever the file holds.
C38_SeenPathNeverProcessedAgain ==
    /\ []NewMessageNeverRead
    /\ [][processed_files \subseteq processed_files']_vars

\* A later poll lists the new message; its path is in processed_files.
C38_Witness ==
    /\ wpc = "loop"
    /\ inbox_files # <<>>
    /\ Head(inbox_files) \in DOMAIN inbox
    /\ inbox[Head(inbox_files)] = "new"
    /\ Head(inbox_files) \in processed_files
    /\ Head(inbox_files) \in processed_dir

(***************************************************************************)
(* Further properties of the Agent Loop (agent/brain.py analyze_message).  *)
(***************************************************************************)
\* The tool calls whose exchange is in the transcript.
CallsDone == 1..(Len(transcript) \div 2)

\* C32: call-to-result pairing.  The transcript is made of one exchange per
\* executed call, in the order the calls were requested: the assistant's
\* record of call k, then one tool result whose tool_call_id is k; there is
\* no other tool result.  By the time of the synthesis call every requested
\* call has its exchange, and that transcript is what the call sends.
C32_CallResultPairing ==
    /\ Len(transcript) = 2 * Cardinality(CallsDone)
    /\ CallsDone \subseteq DOMAIN llm.tool_calls
    /\ \A k \in CallsDone :
           /\ transcript[2 * k - 1].role = "assistant"
           /\ transcript[2 * k - 1].tool_calls = <<k>>
           /\ transcript[2 * k].role = "tool"
           /\ transcript[2 * k].tool_call_id = k
    /\ apc = "tools" => CallsDone = 1..(call_idx - 1)
    /\ apc = "synthesis" => CallsDone = DOMAIN llm.tool_calls
    /\ Len(requests) = 2 =>
           /\ CallsDone = DOMAIN llm.tool_calls
           /\ requests[2].messages = transcript

\* Two calls were requested and executed.
C32_Witness ==
    /\ apc = "synthesis"
    /\ Len(llm.tool_calls) = 2
    /\ Len(transcript) = 4
    /\ transcript[4].tool_call_id = 2

\* C39: when the planning response requests a tool name more than once, every
\* call has its exchange in the transcript, tool_results has one entry per
\* name called, holding the result of the last call of that name, and the
\* record is assembled from these.
C39_LastCallPerToolName ==
    /\ DOMAIN tool_results = {llm.tool_calls[k].name : k \in CallsDone}
    /\ \A k \in CallsDone :
           (\A j \in CallsDone : j > k =>
                  llm.tool_calls[j].name # llm.tool_calls[k].name) =>
               tool_results[llm.tool_calls[k].name] = transcript[2 * k].content
    /\ (apc = "returned" /\ llm.tool_calls # <<>> /\ "error" \notin DOMAIN output) =>
           /\ CallsDone = DOMAIN llm.tool_calls
           /\ output = _structure_output(amessage, asender, tool_results,
                                         "final content")

\* The summarizer was called twice with different results; the record holds
\* the second one.
C39_Witness ==
    /\ apc = "returned"
    /\ "error" \notin DOMAIN output
    /\ Len(llm.tool_calls) = 2
    /\ llm.tool_calls[1].name = llm.tool_calls[2].name
    /\ Len(transcript) = 4
    /\ transcript[2].content # transcript[4].content
    /\ tool_results[llm.tool_calls[2].name] = transcript[4].content
    /\ DOMAIN tool_results = {llm.tool_calls[2].name}


(***************************************************************************)
(* The heuristic path of main.py against the assembler of the Agent Loop.  *)
(***************************************************************************)
\* tool_results holds the results of the five analyzers on the message.
FiveAnalyzerResults ==
    /\ DOMAIN tool_results = ToolNames
    /\ \A n \in ToolNames : tool_results[n] = ToolFunction(n, amessage)

\* The fields of the record that are read from the analyzers' results.
AnalysisFields == {"summary", "priority", "category", "suggested_reply", "tasks"}

SameAnalysis ==
    (skills_output # NoOutput /\ FiveAnalyzerResults) =>
        \A f \in AnalysisFields : output[f] = skills_output[f]

\* C40: on the results of the five analyzers, analyze_with_skills and
\* _structure_output yield records with the same summary, priority, category,
\* suggested reply and tasks, and the same ordered sequence of actions (types,
\* descriptions and data).
C40_PathsEquivalent ==
    /\ SameAnalysis
    /\ (skills_output # NoOutput /\ FiveAnalyzerResults) =>
           output.actions = skills_output.actions


(***************************************************************************)
(* Liveness of the inbox loop.                                             *)
(***************************************************************************)
\* The paths a file can have in the inbox.
WatchedPaths == {Note} \cup {WhatsappFile(n) : n \in 1..MaxFiles}

\* process_message_file was called for f and has returned: either the file
\* was read, went through the pipeline and is in vault/processed, or the
\* call failed and the failure was printed.
Handled(f) ==
    \E i \in DOMAIN file_calls :
        /\ file_calls[i].file = f
        /\ \/ file_calls[i].outcome = "moved" /\ f \in processed_dir
           \/ file_calls[i].outcome = "failed"

\* C34: when watch_folder keeps running and is not interrupted, every file
\* in the inbox under a path that is not in processed_files is eventually
\* handed to process_message_file, and when that call succeeds the file ends
\* in vault/processed.
C34_EveryNewFileIsHandled ==
    \A f \in WatchedPaths :
        (f \in DOMAIN inbox /\ f \notin processed_files) ~> Handled(f)

C34_Witness ==
    /\ created = MaxFiles
    /\ \A f \in WatchedPaths : f \in processed_dir
    /\ \A i \in DOMAIN file_calls : file_calls[i].outcome = "moved"

====
